---------------------------- MODULE Spec2Model ----------------------------
(***************************************************************************)
(* A model of the boolean search engine of cat-mood/mai-ir: the text       *)
(* analyzer (Tokenizer, PorterStemmer), the open-addressed HashMap, the    *)
(* IndexBuilder (add_document, save_index), the on-disk index files, the   *)
(* SearchEngine (load_index, the sorted-list set operations, to_rpn,       *)
(* eval_rpn, search).                                                      *)
(*                                                                         *)
(* A std::string is a sequence of one-character strings; position i of    *)
(* the C++ string is element i+1 of the sequence.  A DynamicArray<T> is a  *)
(* sequence of T (its capacity is not observable through the operations    *)
(* used here).                                                             *)
(***************************************************************************)
EXTENDS Integers, Sequences, FiniteSets, TLC

(***************************************************************************)
(* Characters (<cctype> in the "C" locale)                                 *)
(***************************************************************************)
LowerSeq ==
  <<"a","b","c","d","e","f","g","h","i","j","k","l","m",
    "n","o","p","q","r","s","t","u","v","w","x","y","z">>

UpperSeq ==
  <<"A","B","C","D","E","F","G","H","I","J","K","L","M",
    "N","O","P","Q","R","S","T","U","V","W","X","Y","Z">>

DigitSeq == <<"0","1","2","3","4","5","6","7","8","9">>

Range(s) == {s[i] : i \in 1..Len(s)}

Lower == Range(LowerSeq)

Upper == Range(UpperSeq)

Digit == Range(DigitSeq)

\* std::isspace: space, \t, \n, \v, \f, \r (the last three written out of band)
Space == {" ", "\t", "\n", "\r"}

IndexIn(s, c) == CHOOSE i \in 1..Len(s) : s[i] = c

isalpha(c) == c \in Lower \cup Upper

isalnum(c) == c \in Lower \cup Upper \cup Digit

tolower(c) == IF c \in Upper THEN LowerSeq[IndexIn(UpperSeq, c)] ELSE c

\* the value of a decimal digit
DigitVal(c) == IndexIn(DigitSeq, c) - 1

\* a character's code, for hashing: letters, digits and the rest keep apart
CharCode(c) ==
  IF c \in Lower THEN 96 + IndexIn(LowerSeq, c)
  ELSE IF c \in Upper THEN 64 + IndexIn(UpperSeq, c)
  ELSE IF c \in Digit THEN 47 + IndexIn(DigitSeq, c)
  ELSE IF c = "'" THEN 39
  ELSE IF c = "-" THEN 45
  ELSE IF c = " " THEN 32
  ELSE IF c = "\t" THEN 9
  ELSE IF c = "\n" THEN 10
  ELSE 1

(***************************************************************************)
(* Tokenizer (tokenizer.cpp)                                               *)
(***************************************************************************)
stop_words_ ==
  { <<"a">>, <<"a","n">>, <<"a","n","d">>, <<"a","r","e">>, <<"a","s">>,
    <<"a","t">>, <<"b","e">>, <<"b","y">>, <<"f","o","r">>,
    <<"f","r","o","m">>, <<"h","a","s">>, <<"h","e">>, <<"i","n">>,
    <<"i","s">>, <<"i","t">>, <<"i","t","s">>, <<"o","f">>, <<"o","n">>,
    <<"t","h","a","t">>, <<"t","h","e">>, <<"t","o">>, <<"w","a","s">>,
    <<"w","e","r","e">>, <<"w","i","l","l">>, <<"w","i","t","h">>,
    <<"t","h","i","s">>, <<"b","u","t">>, <<"t","h","e","y">>,
    <<"h","a","v","e">>, <<"h","a","d">>, <<"w","h","a","t">>,
    <<"w","h","e","n">>, <<"w","h","e","r","e">>, <<"w","h","o">>,
    <<"w","h","i","c","h">>, <<"w","h","y">>, <<"h","o","w">>,
    <<"a","l","l">>, <<"e","a","c","h">>, <<"e","v","e","r","y">>,
    <<"b","o","t","h">>, <<"f","e","w">>, <<"m","o","r","e">>,
    <<"m","o","s","t">>, <<"o","t","h","e","r">>, <<"s","o","m","e">>,
    <<"s","u","c","h">>, <<"n","o">>, <<"n","o","r">>, <<"n","o","t">>,
    <<"o","n","l","y">>, <<"o","w","n">>, <<"s","a","m","e">>, <<"s","o">>,
    <<"t","h","a","n">>, <<"t","o","o">>, <<"v","e","r","y">>,
    <<"c","a","n">>, <<"j","u","s","t">>, <<"s","h","o","u","l","d">>,
    <<"n","o","w">>, <<"y","o","u">>, <<"y","o","u","r">>, <<"w","e">>,
    <<"o","u","r">>, <<"u","s">>, <<"o","r">>, <<"i","f">>, <<"d","o">>,
    <<"d","i","d">>, <<"d","o","e","s">>, <<"a","b","o","u","t">>,
    <<"u","p">>, <<"o","u","t">>, <<"w","o","u","l","d">>,
    <<"c","o","u","l","d">>, <<"m","a","y">>, <<"m","i","g","h","t">>,
    <<"b","e","e","n">>, <<"a","l","s","o">>, <<"i","n","t","o">>,
    <<"o","v","e","r">>, <<"a","f","t","e","r">>,
    <<"b","e","f","o","r","e">>, <<"t","h","r","o","u","g","h">>,
    <<"b","e","t","w","e","e","n">>, <<"h","e","r">>, <<"h","i","m">>,
    <<"h","i","s">>, <<"s","h","e">>, <<"t","h","e","m">>,
    <<"t","h","e","i","r">>, <<"m","y">>, <<"m","e">>, <<"a","n","y">>,
    <<"t","h","e","r","e">>, <<"t","h","e","n">>, <<"t","h","e","s","e">>,
    <<"t","h","o","s","e">>, <<"a","m">>, <<"b","e","i","n","g">>,
    <<"h","e","r","e">>, <<"w","h","i","l","e">>,
    <<"d","u","r","i","n","g">>, <<"u","n","d","e","r">>,
    <<"a","g","a","i","n">>, <<"o","n","c","e">> }

\* a tokenizer whose stop-word set is empty
is_stop_word_never(word) == FALSE

is_stop_word(word) == word \in stop_words_

to_lower(str) == [i \in 1..Len(str) |-> tolower(str[i])]

is_alpha(c) == isalpha(c)

\* a finished run kept without the stop-word test of line 66
EmitToken_any(tokens, current_token) ==
  LET lower_token == to_lower(current_token) IN
  IF Len(lower_token) >= 2
  THEN Append(tokens, lower_token)
  ELSE tokens

\* what tokenize does with a finished run: lower-case it, keep it when its
\* length is >= 2 and it is no stop word
EmitToken(tokens, current_token) ==
  LET lower_token == to_lower(current_token) IN
  IF Len(lower_token) >= 2 /\ ~is_stop_word(lower_token)
  THEN Append(tokens, lower_token)
  ELSE tokens

RECURSIVE tokenize_loop(_, _, _, _)
tokenize_loop(text, i, tokens, current_token) ==
  IF i > Len(text)
  THEN IF current_token # <<>> THEN EmitToken(tokens, current_token)
                              ELSE tokens
  ELSE LET c == text[i] IN
       IF is_alpha(c) \/ (c = "'" /\ current_token # <<>>)
       THEN tokenize_loop(text, i + 1, tokens, Append(current_token, c))
       ELSE IF current_token # <<>>
            THEN tokenize_loop(text, i + 1,
                               EmitToken(tokens, current_token), <<>>)
            ELSE tokenize_loop(text, i + 1, tokens, current_token)

tokenize(text) == tokenize_loop(text, 1, <<>>, <<>>)

(***************************************************************************)
(* PorterStemmer (stemmer.cpp).  The stemmer's state is the record         *)
(* [word, k, j, oob]: word_, k_, j_, and oob, which records that word_ was *)
(* read outside 0..length (undefined behaviour of std::string's            *)
(* operator[]); ub is the character such a read returns.                   *)
(***************************************************************************)
\* the terminating '\\0' of a std::string
NUL == "NUL"

\* word_[i]; word_[length] is the terminating NUL
CharAt(st, i, ub) ==
  IF i >= 0 /\ i < Len(st.word) THEN st.word[i + 1]
  ELSE IF i = Len(st.word) THEN NUL
  ELSE ub

OutOfRange(st, i) == i < 0 \/ i > Len(st.word)

RECURSIVE is_consonant(_, _)
is_consonant(st, i) ==
  LET ch == st.word[i + 1] IN
  IF ch \in {"a", "e", "i", "o", "u"} THEN FALSE
  ELSE IF ch = "y" THEN (IF i = 0 THEN TRUE ELSE ~is_consonant(st, i - 1))
  ELSE TRUE

\* the three scanning loops of measure(): phase "c0" skips the leading
\* consonants, "v" a run of vowels, "c" a run of consonants
RECURSIVE measure_loop(_, _, _, _)
measure_loop(st, i, n, phase) ==
  IF i > st.j THEN n
  ELSE IF phase = "c0"
  THEN IF ~is_consonant(st, i) THEN measure_loop(st, i + 1, n, "v")
       ELSE measure_loop(st, i + 1, n, "c0")
  ELSE IF phase = "v"
  THEN IF is_consonant(st, i) THEN measure_loop(st, i + 1, n + 1, "c")
       ELSE measure_loop(st, i + 1, n, "v")
  ELSE IF ~is_consonant(st, i) THEN measure_loop(st, i + 1, n, "v")
       ELSE measure_loop(st, i + 1, n, "c")

measure(st) == measure_loop(st, 0, 0, "c0")

vowel_in_stem(st) == \E i \in 0..st.j : ~is_consonant(st, i)

double_consonant(st, i) ==
  IF i < 1 THEN FALSE
  ELSE IF st.word[i + 1] # st.word[i] THEN FALSE
  ELSE is_consonant(st, i)

cvc(st, i) ==
  IF i < 2 \/ ~is_consonant(st, i) \/ is_consonant(st, i - 1)
          \/ ~is_consonant(st, i - 2)
  THEN FALSE
  ELSE st.word[i + 1] \notin {"w", "x", "y"}

\* the value ends(s) returns; it reads word_[k_]
ends(st, s) ==
  LET length == Len(s) IN
  IF st.k < 0 \/ st.k > Len(st.word) THEN FALSE
  ELSE IF s[length] # CharAt(st, st.k, NUL) THEN FALSE
  ELSE IF length > st.k + 1 THEN FALSE
  ELSE SubSeq(st.word, st.k - length + 2, st.k + 1) = s

\* the state ends(s) leaves when it returns true: j_ = k_ - length
ends_j(st, s) == [st EXCEPT !.j = st.k - Len(s)]

set_to(st, s) ==
  [st EXCEPT !.word = SubSeq(st.word, 1, st.j + 1) \o s
                        \o SubSeq(st.word, st.k + 2, Len(st.word)),
             !.k = st.j + Len(s)]

r(st, s) == IF measure(st) > 0 THEN set_to(st, s) ELSE st

\* if (ends(a)) { r(b); break; } ... for a list of pairs <<a, b>>
RECURSIVE replace_first(_, _)
replace_first(st, rules) ==
  IF rules = <<>> THEN st
  ELSE IF ends(st, rules[1][1]) THEN r(ends_j(st, rules[1][1]), rules[1][2])
  ELSE replace_first(st, Tail(rules))

step1ab_s(st) ==
  IF st.word[st.k + 1] = "s"
  THEN IF ends(st, <<"s","s","e","s">>)
       THEN [ends_j(st, <<"s","s","e","s">>) EXCEPT !.k = st.k - 2]
       ELSE IF ends(st, <<"i","e","s">>)
       THEN set_to(ends_j(st, <<"i","e","s">>), <<"i">>)
       ELSE IF st.word[st.k] # "s" THEN [st EXCEPT !.k = st.k - 1]
       ELSE st
  ELSE st

step1ab_ed(st) ==
  LET t == [st EXCEPT !.k = st.j] IN
  IF ends(t, <<"a","t">>) THEN set_to(ends_j(t, <<"a","t">>), <<"a","t","e">>)
  ELSE IF ends(t, <<"b","l">>)
  THEN set_to(ends_j(t, <<"b","l">>), <<"b","l","e">>)
  ELSE IF ends(t, <<"i","z">>)
  THEN set_to(ends_j(t, <<"i","z">>), <<"i","z","e">>)
  ELSE IF double_consonant(t, t.k)
  THEN IF t.word[t.k] \in {"l", "s", "z"} THEN t
       ELSE [t EXCEPT !.k = t.k - 1]
  ELSE IF measure(t) = 1 /\ cvc(t, t.k) THEN set_to(t, <<"e">>)
  ELSE t

\* step1ab after the plural is removed: "eed", "ed", "ing"
step1ab_b(st) ==
  IF ends(st, <<"e","e","d">>)
  THEN LET t == ends_j(st, <<"e","e","d">>) IN
       IF measure(t) > 0 THEN [t EXCEPT !.k = t.k - 1] ELSE t
  ELSE IF ends(st, <<"e","d">>)
  THEN LET t == ends_j(st, <<"e","d">>) IN
       IF vowel_in_stem(t) THEN step1ab_ed(t) ELSE t
  ELSE IF ends(st, <<"i","n","g">>)
  THEN LET t == ends_j(st, <<"i","n","g">>) IN
       IF vowel_in_stem(t) THEN step1ab_ed(t) ELSE t
  ELSE st

step1ab(st) == step1ab_b(step1ab_s(st))

step1c(st) ==
  IF ends(st, <<"y">>)
  THEN LET t == ends_j(st, <<"y">>) IN
       IF vowel_in_stem(t) THEN [t EXCEPT !.word[t.k + 1] = "i"] ELSE t
  ELSE st

step2_rules(ch) ==
  CASE ch = "a" -> << << <<"a","t","i","o","n","a","l">>, <<"a","t","e">> >>,
                      << <<"t","i","o","n","a","l">>, <<"t","i","o","n">> >> >>
    [] ch = "c" -> << << <<"e","n","c","i">>, <<"e","n","c","e">> >>,
                      << <<"a","n","c","i">>, <<"a","n","c","e">> >> >>
    [] ch = "e" -> << << <<"i","z","e","r">>, <<"i","z","e">> >> >>
    [] ch = "l" -> << << <<"b","l","i">>, <<"b","l","e">> >>,
                      << <<"a","l","l","i">>, <<"a","l">> >>,
                      << <<"e","n","t","l","i">>, <<"e","n","t">> >>,
                      << <<"e","l","i">>, <<"e">> >>,
                      << <<"o","u","s","l","i">>, <<"o","u","s">> >> >>
    [] ch = "o" -> << << <<"i","z","a","t","i","o","n">>, <<"i","z","e">> >>,
                      << <<"a","t","i","o","n">>, <<"a","t","e">> >>,
                      << <<"a","t","o","r">>, <<"a","t","e">> >> >>
    [] ch = "s" -> << << <<"a","l","i","s","m">>, <<"a","l">> >>,
                      << <<"i","v","e","n","e","s","s">>, <<"i","v","e">> >>,
                      << <<"f","u","l","n","e","s","s">>, <<"f","u","l">> >>,
                      << <<"o","u","s","n","e","s","s">>, <<"o","u","s">> >> >>
    [] ch = "t" -> << << <<"a","l","i","t","i">>, <<"a","l">> >>,
                      << <<"i","v","i","t","i">>, <<"i","v","e">> >>,
                      << <<"b","i","l","i","t","i">>, <<"b","l","e">> >> >>
    [] ch = "g" -> << << <<"l","o","g","i">>, <<"l","o","g">> >> >>
    [] OTHER -> <<>>

step2(st) ==
  IF st.k = 0 THEN st
  ELSE replace_first(st, step2_rules(st.word[st.k]))

step3_rules(ch) ==
  CASE ch = "e" -> << << <<"i","c","a","t","e">>, <<"i","c">> >>,
                      << <<"a","t","i","v","e">>, <<>> >>,
                      << <<"a","l","i","z","e">>, <<"a","l">> >> >>
    [] ch = "i" -> << << <<"i","c","i","t","i">>, <<"i","c">> >> >>
    [] ch = "l" -> << << <<"i","c","a","l">>, <<"i","c">> >>,
                      << <<"f","u","l">>, <<>> >> >>
    [] ch = "s" -> << << <<"n","e","s","s">>, <<>> >> >>
    [] OTHER -> <<>>

step3(st) == replace_first(st, step3_rules(CharAt(st, st.k, NUL)))

\* the suffixes step4 tries for the character word_[k_-1], in order
step4_suffixes(ch) ==
  CASE ch = "a" -> << <<"a","l">> >>
    [] ch = "c" -> << <<"a","n","c","e">>, <<"e","n","c","e">> >>
    [] ch = "e" -> << <<"e","r">> >>
    [] ch = "i" -> << <<"i","c">> >>
    [] ch = "l" -> << <<"a","b","l","e">>, <<"i","b","l","e">> >>
    [] ch = "n" -> << <<"a","n","t">>, <<"e","m","e","n","t">>,
                      <<"m","e","n","t">>, <<"e","n","t">> >>
    [] ch = "o" -> << <<"i","o","n">>, <<"o","u">> >>
    [] ch = "s" -> << <<"i","s","m">> >>
    [] ch = "t" -> << <<"a","t","e">>, <<"i","t","i">> >>
    [] ch = "u" -> << <<"o","u","s">> >>
    [] ch = "v" -> << <<"i","v","e">> >>
    [] ch = "z" -> << <<"i","z","e">> >>
    [] OTHER -> <<>>

\* [hit, st]: whether the switch left by break, and the state then.
\* ends("ion") keeps its j_ also when the test on word_[j_] fails.
RECURSIVE step4_try(_, _)
step4_try(st, sufs) ==
  IF sufs = <<>> THEN [hit |-> FALSE, st |-> st]
  ELSE IF ends(st, sufs[1])
  THEN LET t == ends_j(st, sufs[1]) IN
       IF sufs[1] = <<"i","o","n">>
       THEN IF t.j >= 0 /\ t.word[t.j + 1] \in {"s", "t"}
            THEN [hit |-> TRUE, st |-> t]
            ELSE step4_try(t, Tail(sufs))
       ELSE [hit |-> TRUE, st |-> t]
  ELSE step4_try(st, Tail(sufs))

\* the end of step4, res being how the switch was left: if (m() > 1) k_ = j_
step4_cut(res) ==
  IF res.hit /\ measure(res.st) > 1 THEN [res.st EXCEPT !.k = res.st.j]
  ELSE res.st

step4(st0, ub) ==
  LET st == [st0 EXCEPT !.oob = st0.oob \/ OutOfRange(st0, st0.k - 1)] IN
  step4_cut(step4_try(st, step4_suffixes(CharAt(st, st.k - 1, ub))))

\* the first half of step5 on a word that ends in "e", a being m()
step5_e(st, a) ==
  IF a > 1 \/ (a = 1 /\ ~cvc(st, st.k - 1)) THEN [st EXCEPT !.k = st.k - 1]
  ELSE st

\* the second half of step5
step5_l(t) ==
  IF CharAt(t, t.k, NUL) = "l" /\ double_consonant(t, t.k) /\ measure(t) > 1
  THEN [t EXCEPT !.k = t.k - 1]
  ELSE t

step5(st0) ==
  LET st == [st0 EXCEPT !.j = st0.k] IN
  step5_l(IF CharAt(st, st.k, NUL) = "e" THEN step5_e(st, measure(st))
          ELSE st)

\* PorterStemmer(): k_(0), j_(0)
PorterStemmer0 == [word |-> <<>>, k |-> 0, j |-> 0, oob |-> FALSE]

\* stem(word) on the stemmer object prev: [st, out], the object afterwards
\* (stem assigns word_ and k_ and leaves j_ as the last call left it) and
\* the string returned
stem_begin(prev, word) ==
  [word |-> word, k |-> Len(word) - 1, j |-> prev.j, oob |-> prev.oob]

stem_return(st) == [st |-> st, out |-> SubSeq(st.word, 1, st.k + 1)]

\* stem with the test k_ <= 0 in the place of k_ <= 1 (line 228)
stem_run_long(prev, word, ub) ==
  IF Len(word) - 1 <= 0 THEN [st |-> stem_begin(prev, word), out |-> word]
  ELSE stem_return(
         step5(step4(step3(step2(step1c(step1ab(stem_begin(prev, word))))),
                     ub)))

stem_run(prev, word, ub) ==
  IF Len(word) - 1 <= 1 THEN [st |-> stem_begin(prev, word), out |-> word]
  ELSE stem_return(
         step5(step4(step3(step2(step1c(step1ab(stem_begin(prev, word))))),
                     ub)))

\* lines 228-237 of stem on the object st: [st, out]
stem_steps(st, ub) ==
  IF st.k <= 1 THEN [st |-> st, out |-> st.word]
  ELSE stem_return(step5(step4(step3(step2(step1c(step1ab(st)))), ub)))

\* the string stem(word) returns (it does not depend on the object's
\* previous state nor, see step4, on what an out-of-range read returns)
stem(word) == stem_run(PorterStemmer0, word, NUL).out

(***************************************************************************)
(* HashMap<K, V> (data_structures.h): open addressing, linear probing.     *)
(* A map is [table, capacity, size]; slot i of table_ is table[i + 1], an  *)
(* Entry [key, value, occupied, deleted].  The key and value of a slot     *)
(* never written are written <<>>.                                         *)
(***************************************************************************)
Entry0 == [key |-> <<>>, value |-> <<>>, occupied |-> FALSE, deleted |-> FALSE]

\* HashMap(initial_capacity)
HashMapNew(initial_capacity) ==
  [table |-> [i \in 1..initial_capacity |-> Entry0],
   capacity |-> initial_capacity, size |-> 0]

\* HashMap(): 16 slots
DefaultCapacity == 16

HashMap0 == HashMapNew(DefaultCapacity)

\* std::hash<std::string>: implementation-defined.  The model draws it from
\* a family of polynomial hashes, one per seed.
RECURSIVE hasher_loop(_, _, _)
hasher_loop(key, i, h) ==
  IF i > Len(key) THEN h
  ELSE hasher_loop(key, i + 1, (h * 31 + CharCode(key[i])) % (2 ^ 12))

hasher(seed, key) == hasher_loop(key, 1, seed * 7)

hash(seed, m, key) == hasher(seed, key) % m.capacity

\* the probing loop of insert from slot index: the slot to write and how
\* the loop ended ("update": the key is there, "free": a slot that is not
\* live, "full": back at original_index)
RECURSIVE insert_probe(_, _, _, _)
insert_probe(m, key, index, original_index) ==
  LET e == m.table[index + 1] IN
  IF e.occupied /\ ~e.deleted
  THEN IF e.key = key THEN [how |-> "update", index |-> index]
       ELSE LET next == (index + 1) % m.capacity IN
            IF next = original_index THEN [how |-> "full", index |-> next]
            ELSE insert_probe(m, key, next, original_index)
  ELSE [how |-> "free", index |-> index]

RECURSIVE insert(_, _, _, _)
RECURSIVE rehash_loop(_, _, _, _)
\* rehash: a fresh table of new_capacity, every live entry of the old
\* table inserted in slot order
rehash_loop(seed, old, i, m) ==
  IF i > old.capacity THEN m
  ELSE LET e == old.table[i] IN
       IF e.occupied /\ ~e.deleted
       THEN rehash_loop(seed, old, i + 1, insert(seed, m, e.key, e.value))
       ELSE rehash_loop(seed, old, i + 1, m)

rehash(seed, m, new_capacity) ==
  rehash_loop(seed, m, 1, HashMapNew(new_capacity))

\* insert counting the key it finds in the table as a new one
insert_at_counting(seed, m, key, value, p) ==
  IF p.how = "update"
  THEN [m EXCEPT !.table[p.index + 1].value = value, !.size = m.size + 1]
  ELSE IF p.how = "full"
  THEN insert(seed, rehash(seed, m, m.capacity * 2), key, value)
  ELSE [m EXCEPT !.table[p.index + 1] =
                    [key |-> key, value |-> value,
                     occupied |-> TRUE, deleted |-> FALSE],
                 !.size = m.size + 1]

\* insert once the probing loop has ended as p says
insert_at(seed, m, key, value, p) ==
  IF p.how = "update"
  THEN [m EXCEPT !.table[p.index + 1].value = value]
  ELSE IF p.how = "full"
  THEN insert(seed, rehash(seed, m, m.capacity * 2), key, value)
  ELSE [m EXCEPT !.table[p.index + 1] =
                    [key |-> key, value |-> value,
                     occupied |-> TRUE, deleted |-> FALSE],
                 !.size = m.size + 1]

\* insert after the load factor test
insert_probed(seed, m, key, value) ==
  insert_at(seed, m, key, value,
            insert_probe(m, key, hash(seed, m, key), hash(seed, m, key)))

insert(seed, m, key, value) ==
  insert_probed(seed,
                IF m.size * 10 > m.capacity * 7
                THEN rehash(seed, m, m.capacity * 2) ELSE m,
                key, value)

\* the probing loop of find: the slot holding key, or -1
RECURSIVE find_probe(_, _, _, _)
find_probe(m, key, index, original_index) ==
  LET e == m.table[index + 1] IN
  IF ~e.occupied THEN -1
  ELSE IF ~e.deleted /\ e.key = key THEN index
  ELSE LET next == (index + 1) % m.capacity IN
       IF next = original_index THEN -1
       ELSE find_probe(m, key, next, original_index)

\* find(key, value): [found, value]; value is left as given when not found
find_at(m, i, value) ==
  IF i >= 0 THEN [found |-> TRUE, value |-> m.table[i + 1].value]
  ELSE [found |-> FALSE, value |-> value]

find(seed, m, key, value) ==
  find_at(m, find_probe(m, key, hash(seed, m, key), hash(seed, m, key)),
          value)

\* remove once the probing loop has ended on slot i (-1: key not found)
remove_at(m, i) ==
  IF i >= 0
  THEN [m EXCEPT !.table[i + 1].deleted = TRUE, !.size = m.size - 1]
  ELSE m

\* remove(key): the probing loop is that of find
remove(seed, m, key) ==
  remove_at(m, find_probe(m, key, hash(seed, m, key), hash(seed, m, key)))

\* begin() .. end(): the Iterator walks the slots in order and stops on the
\* live ones
RECURSIVE entries_loop(_, _, _)
entries_loop(m, i, acc) ==
  IF i > m.capacity THEN acc
  ELSE entries_loop(m, i + 1,
                    IF m.table[i].occupied /\ ~m.table[i].deleted
                    THEN Append(acc, m.table[i]) ELSE acc)

entries(m) == entries_loop(m, 1, <<>>)

(***************************************************************************)
(* IndexBuilder (index_builder.h, index_builder.cpp)                       *)
(***************************************************************************)
BuildStats0 ==
  [total_tokens |-> 0, total_stems |-> 0, total_token_chars |-> 0,
   total_stem_chars |-> 0, total_text_bytes |-> 0, doc_count |-> 0]

\* IndexBuilder(); zipf_ is the ZipfAnalyzer's term_frequencies_
IndexBuilder0 ==
  [inverted_index_ |-> HashMap0, doc_urls_ |-> <<>>, doc_titles_ |-> <<>>,
   doc_lengths_ |-> <<>>, stemmer_ |-> PorterStemmer0, zipf_ |-> HashMap0,
   stats_ |-> BuildStats0]

TermPosting(doc_id, tf) == [doc_id |-> doc_id, tf |-> tf]

\* `while (doc_urls_.size() <= doc_id) { push_back ... }`: how many times
\* the loop runs, and an array after that many push_back(fill)
Pushes(urls, doc_id) == IF Len(urls) <= doc_id THEN doc_id + 1 - Len(urls) ELSE 0

PushN(arr, n, fill) == arr \o [i \in 1..n |-> fill]

\* the counting without the increment: every occurrence stores 1
count_found_once(seed, m, key, f) == insert(seed, m, key, 1)

\* a map after `find(key, v) ? insert(key, v + 1) : insert(key, 1)`, f being
\* what find returned
count_found(seed, m, key, f) ==
  insert(seed, m, key, IF f.found THEN f.value + 1 ELSE 1)

CountUp(seed, m, key) == count_found(seed, m, key, find(seed, m, key, 0))

RECURSIVE SumLen(_)
SumLen(strs) == IF strs = <<>> THEN 0 ELSE Len(Head(strs)) + SumLen(Tail(strs))

\* lines 10-17: the arrays grown to doc_id + 1 slots, url and title stored
store_document(b, doc_id, url, title) ==
  LET n == Pushes(b.doc_urls_, doc_id) IN
  [b EXCEPT
     !.doc_urls_ = [PushN(b.doc_urls_, n, <<>>) EXCEPT ![doc_id + 1] = url],
     !.doc_titles_ = [PushN(b.doc_titles_, n, <<>>)
                        EXCEPT ![doc_id + 1] = title],
     !.doc_lengths_ = PushN(b.doc_lengths_, n, 0)]

\* the same with the text's bytes stored as the document's length
store_tokens_bytes(b, doc_id, text, tokens) ==
  [b EXCEPT
     !.doc_lengths_[doc_id + 1] = Len(text),
     !.stats_ = [@ EXCEPT !.total_text_bytes = @ + Len(text),
                          !.total_tokens = @ + Len(tokens),
                          !.total_token_chars = @ + SumLen(tokens)]]

\* lines 19-28: the length of the document and the statistics of its tokens
store_tokens(b, doc_id, text, tokens) ==
  [b EXCEPT
     !.doc_lengths_[doc_id + 1] = Len(tokens),
     !.stats_ = [@ EXCEPT !.total_text_bytes = @ + Len(text),
                          !.total_tokens = @ + Len(tokens),
                          !.total_token_chars = @ + SumLen(tokens)]]

\* the body of the loop over the tokens (lines 32-47), res being what stem
\* returned; acc is [stemmer, term_freqs, zipf, stats]
count_stem(seed, acc, res) ==
  IF res.out = <<>> THEN [acc EXCEPT !.stemmer = res.st]
  ELSE [stemmer |-> res.st,
        term_freqs |-> CountUp(seed, acc.term_freqs, res.out),
        zipf |-> CountUp(seed, acc.zipf, res.out),
        stats |-> [acc.stats EXCEPT !.total_stems = @ + 1,
                                    !.total_stem_chars = @ + Len(res.out)]]

\* the stems the loop over the tokens counts, in order (lines 31-35)
RECURSIVE doc_stems(_, _, _)
doc_stem(res, tokens, ub) ==
  (IF res.out = <<>> THEN <<>> ELSE <<res.out>>)
    \o doc_stems(res.st, tokens, ub)

doc_stems(stemmer, tokens, ub) ==
  IF tokens = <<>> THEN <<>>
  ELSE doc_stem(stem_run(stemmer, Head(tokens), ub), Tail(tokens), ub)

\* the loop over the tokens (lines 31-48)
RECURSIVE count_stems(_, _, _, _)
count_stems(seed, acc, tokens, ub) ==
  IF tokens = <<>> THEN acc
  ELSE count_stems(seed,
                   count_stem(seed, acc,
                              stem_run(acc.stemmer, Head(tokens), ub)),
                   Tail(tokens), ub)

\* the loop over term_freqs (lines 50-62): each (stem, tf), in the map's
\* slot order, appended as (doc_id, tf) to the stem's posting list
RECURSIVE append_postings(_, _, _, _)
append_postings(seed, index, doc_id, freqs) ==
  IF freqs = <<>> THEN index
  ELSE append_postings(seed,
         insert(seed, index, Head(freqs).key,
                Append(find(seed, index, Head(freqs).key, <<>>).value,
                       TermPosting(doc_id, Head(freqs).value))),
         doc_id, Tail(freqs))

\* lines 30-62, counted being the state after the loop over the tokens
index_document(seed, b, doc_id, counted) ==
  [b EXCEPT
     !.inverted_index_ = append_postings(seed, @, doc_id,
                                         entries(counted.term_freqs)),
     !.stemmer_ = counted.stemmer,
     !.zipf_ = counted.zipf,
     !.stats_ = counted.stats]

\* lines 30-62
index_tokens(seed, b, doc_id, tokens, ub) ==
  index_document(seed, b, doc_id,
                 count_stems(seed,
                             [stemmer |-> b.stemmer_, term_freqs |-> HashMap0,
                              zipf |-> b.zipf_, stats |-> b.stats_],
                             tokens, ub))

\* lines 19-62
add_tokens(seed, b, doc_id, text, tokens, ub) ==
  index_tokens(seed, store_tokens(b, doc_id, text, tokens), doc_id, tokens,
               ub)

add_document(seed, b, doc_id, url, title, text, ub) ==
  add_tokens(seed, store_document(b, doc_id, url, title), doc_id, text,
             tokenize(text), ub)

(***************************************************************************)
(* Text written with operator<< and read back with operator>> and getline  *)
(***************************************************************************)
\* operator<<(int) for n >= 0: the decimal digits
RECURSIVE IntToStr(_)
IntToStr(n) ==
  IF n < 10 THEN <<DigitSeq[n + 1]>>
  ELSE Append(IntToStr(n \div 10), DigitSeq[(n % 10) + 1])

\* std::getline(file, line) until it fails: the lines of a file; a last
\* line without '\n' is returned when it is not empty
RECURSIVE SplitLines(_, _, _)
SplitLines(content, i, line) ==
  IF i > Len(content) THEN (IF line = <<>> THEN <<>> ELSE <<line>>)
  ELSE IF content[i] = "\n"
  THEN <<line>> \o SplitLines(content, i + 1, <<>>)
  ELSE SplitLines(content, i + 1, Append(line, content[i]))

\* std::istringstream(line): the characters, the read position (1-based),
\* failbit and eofbit
IStream(line) == [s |-> line, pos |-> 1, fail |-> FALSE, eof |-> FALSE]

RECURSIVE SkipWs(_, _)
SkipWs(s, p) == IF p <= Len(s) /\ s[p] \in Space THEN SkipWs(s, p + 1) ELSE p

RECURSIVE ScanDigits(_, _)
ScanDigits(s, p) ==
  IF p <= Len(s) /\ s[p] \in Digit THEN ScanDigits(s, p + 1) ELSE p

RECURSIVE ScanWord(_, _)
ScanWord(s, p) ==
  IF p <= Len(s) /\ s[p] \notin Space THEN ScanWord(s, p + 1) ELSE p

RECURSIVE DigitsVal(_, _, _, _)
DigitsVal(s, p, q, acc) ==
  IF p >= q THEN acc ELSE DigitsVal(s, p + 1, q, acc * 10 + DigitVal(s[p]))

\* is >> n for an int n holding old: [is, val].  A stream that is not good
\* leaves n alone, and so does one with only white space left; characters
\* that are no number store 0 (C++11) and set failbit.
ExtractInt(is, old) ==
  IF is.fail \/ is.eof THEN [is |-> [is EXCEPT !.fail = TRUE], val |-> old]
  ELSE LET p == SkipWs(is.s, is.pos) IN
       IF p > Len(is.s)
       THEN [is |-> [is EXCEPT !.pos = p, !.fail = TRUE, !.eof = TRUE],
             val |-> old]
       ELSE LET neg == is.s[p] = "-"
                d   == IF is.s[p] \in {"-", "+"} THEN p + 1 ELSE p
                q   == ScanDigits(is.s, d)
            IN  IF q = d
                THEN [is |-> [is EXCEPT !.pos = q, !.fail = TRUE,
                                        !.eof = q > Len(is.s)],
                      val |-> 0]
                ELSE [is |-> [is EXCEPT !.pos = q, !.eof = q > Len(is.s)],
                      val |-> IF neg THEN 0 - DigitsVal(is.s, d, q, 0)
                                     ELSE DigitsVal(is.s, d, q, 0)]

\* is >> str for a std::string holding old: [is, val]
ExtractWord(is, old) ==
  IF is.fail \/ is.eof THEN [is |-> [is EXCEPT !.fail = TRUE], val |-> old]
  ELSE LET p == SkipWs(is.s, is.pos) IN
       IF p > Len(is.s)
       THEN [is |-> [is EXCEPT !.pos = p, !.fail = TRUE, !.eof = TRUE],
             val |-> old]
       ELSE LET q == ScanWord(is.s, p) IN
            [is |-> [is EXCEPT !.pos = q, !.eof = q > Len(is.s)],
             val |-> SubSeq(is.s, p, q - 1)]

RECURSIVE ScanTo(_, _, _)
ScanTo(s, p, delim) ==
  IF p <= Len(s) /\ s[p] # delim THEN ScanTo(s, p + 1, delim) ELSE p

\* std::getline(is, str, delim) for a std::string holding old: [is, val]
GetLine(is, old, delim) ==
  IF is.fail \/ is.eof THEN [is |-> [is EXCEPT !.fail = TRUE], val |-> old]
  ELSE LET q == ScanTo(is.s, is.pos, delim) IN
       IF q <= Len(is.s)
       THEN [is |-> [is EXCEPT !.pos = q + 1],
             val |-> SubSeq(is.s, is.pos, q - 1)]
       ELSE [is |-> [is EXCEPT !.pos = q, !.eof = TRUE, !.fail = (q = is.pos)],
             val |-> SubSeq(is.s, is.pos, q - 1)]

(***************************************************************************)
(* IndexBuilder::save_index: the four files it writes                      *)
(***************************************************************************)
\* vocabulary.txt written with term_id += 2 in the place of term_id++
RECURSIVE VocabText_skipping(_, _)
VocabText_skipping(ents, term_id) ==
  IF ents = <<>> THEN <<>>
  ELSE IntToStr(term_id) \o <<" ">> \o Head(ents).key \o <<" ">>
         \o IntToStr(Len(Head(ents).value)) \o <<"\n">>
         \o VocabText_skipping(Tail(ents), term_id + 2)

\* vocabulary.txt: term_id ' ' term ' ' size '\n' per entry, in slot order
RECURSIVE VocabText(_, _)
VocabText(ents, term_id) ==
  IF ents = <<>> THEN <<>>
  ELSE IntToStr(term_id) \o <<" ">> \o Head(ents).key \o <<" ">>
         \o IntToStr(Len(Head(ents).value)) \o <<"\n">>
         \o VocabText(Tail(ents), term_id + 1)

\* the ints of one posting list in index.bin: size, then doc_id, tf pairs
RECURSIVE PostingInts(_)
PostingInts(posting_list) ==
  IF posting_list = <<>> THEN <<>>
  ELSE <<Head(posting_list).doc_id, Head(posting_list).tf>>
         \o PostingInts(Tail(posting_list))

RECURSIVE IndexInts(_)
IndexInts(ents) ==
  IF ents = <<>> THEN <<>>
  ELSE <<Len(Head(ents).value)>> \o PostingInts(Head(ents).value)
         \o IndexInts(Tail(ents))

\* documents.txt: i '\t' url '\t' title '\n'
RECURSIVE DocsText(_, _, _)
DocsText(urls, titles, i) ==
  IF i >= Len(urls) THEN <<>>
  ELSE IntToStr(i) \o <<"\t">> \o urls[i + 1] \o <<"\t">> \o titles[i + 1]
         \o <<"\n">> \o DocsText(urls, titles, i + 1)

\* doc_lengths.txt: length '\n'
RECURSIVE LengthsText(_)
LengthsText(lengths) ==
  IF lengths = <<>> THEN <<>>
  ELSE IntToStr(Head(lengths)) \o <<"\n">> \o LengthsText(Tail(lengths))

\* the index directory: each file's content, and which files exist
Disk0 ==
  [vocabulary |-> <<>>, index |-> <<>>, documents |-> <<>>,
   doc_lengths |-> <<>>, present |-> {}]

save_index(b) ==
  [vocabulary |-> VocabText(entries(b.inverted_index_), 0),
   index |-> IndexInts(entries(b.inverted_index_)),
   documents |-> DocsText(b.doc_urls_, b.doc_titles_, 0),
   doc_lengths |-> LengthsText(b.doc_lengths_),
   present |-> {"vocabulary.txt", "index.bin", "documents.txt",
                "doc_lengths.txt"}]

(***************************************************************************)
(* IndexBuilder::build_from_jsonl and extract_json_field                   *)
(* (index_builder.cpp)                                                     *)
(***************************************************************************)
\* std::string::npos
npos == -1

\* the largest int
INT_MAX == 2147483647

\* s.find(pat, pos): the first position from pos on where pat occurs in s
str_find(s, pat, pos) ==
  LET hits == {i \in pos..(Len(s) - Len(pat)) :
                 SubSeq(s, i + 1, i + Len(pat)) = pat}
  IN  IF hits = {} THEN npos
      ELSE CHOOSE i \in hits : \A j \in hits : i <= j

\* lines 70-72: past the spaces and tabs after the colon
RECURSIVE skip_blanks(_, _)
skip_blanks(json, value_start) ==
  IF value_start < Len(json) /\ json[value_start + 1] \in {" ", "\t"}
  THEN skip_blanks(json, value_start + 1)
  ELSE value_start

\* line 77: json.substr(value_start, value_end - value_start); with
\* value_end = npos the count is larger than the string
value_substr(json, value_start, value_end) ==
  IF value_end = npos THEN SubSeq(json, value_start + 1, Len(json))
  ELSE SubSeq(json, value_start + 1, value_end)

\* lines 75-77: a value that does not start with a quote
bare_value(json, value_start, comma) ==
  value_substr(json, value_start,
               IF comma = npos THEN str_find(json, <<"}">>, value_start)
               ELSE comma)

\* lines 85-88: the character an escape stands for
unescape(c) ==
  IF c = "n" THEN "\n" ELSE IF c = "t" THEN "\t"
  ELSE IF c = "r" THEN "\r" ELSE c

\* the first position from i on of a backslash or a quote, npos if none
next_special(json, i) ==
  LET hits == {p \in i..(Len(json) - 1) : json[p + 1] \in {"\\", "\""}}
  IN  IF hits = {} THEN npos
      ELSE CHOOSE p \in hits : \A q \in hits : p <= q

\* lines 82-94 from position i on, p being the next backslash or quote: the
\* characters before p are appended as they are; a backslash that is the
\* last character is appended too
RECURSIVE quoted_from(_, _, _, _)
quoted_from(json, i, p, result) ==
  IF p = npos THEN result \o SubSeq(json, i + 1, Len(json))
  ELSE IF json[p + 1] = "\""
  THEN result \o SubSeq(json, i + 1, p)
  ELSE IF p + 1 < Len(json)
  THEN quoted_from(json, p + 2, next_special(json, p + 2),
                   result \o SubSeq(json, i + 1, p)
                          \o <<unescape(json[p + 2])>>)
  ELSE result \o SubSeq(json, i + 1, p + 1)

\* lines 82-94: the string value from position i on
quoted_value(json, i, result) ==
  quoted_from(json, i, next_special(json, i), result)

\* lines 74-96; json[json.length()] is the null character
field_value(json, value_start) ==
  IF value_start >= Len(json) \/ json[value_start + 1] # "\""
  THEN bare_value(json, value_start, str_find(json, <<",">>, value_start))
  ELSE quoted_value(json, value_start + 1, <<>>)

\* lines 69-96
field_at(json, field_pos) ==
  field_value(json, skip_blanks(json, str_find(json, <<":">>, field_pos) + 1))

\* lines 66-67, with the value found
field_found(json, field_pos) ==
  IF field_pos = npos THEN <<>> ELSE field_at(json, field_pos)

extract_json_field(json, field_name, start_pos) ==
  field_found(json, str_find(json, <<"\"">> \o field_name \o <<"\"", ":">>,
                             start_pos))

\* the int between positions d and q of str
stoi_value(str, neg, d, q) ==
  IF q = d \/ DigitsVal(str, d, q, 0) > INT_MAX
  THEN [threw |-> TRUE, val |-> 0]
  ELSE [threw |-> FALSE,
        val |-> IF neg THEN 0 - DigitsVal(str, d, q, 0)
                ELSE DigitsVal(str, d, q, 0)]

stoi_digits(str, p, d) == stoi_value(str, str[p] = "-", d, ScanDigits(str, d))

stoi_sign(str, p) ==
  IF p > Len(str) THEN [threw |-> TRUE, val |-> 0]
  ELSE stoi_digits(str, p, IF str[p] \in {"-", "+"} THEN p + 1 ELSE p)

\* std::stoi(str): [threw, val].  It skips white space, takes a sign and
\* the digits that follow, and throws std::invalid_argument when there is no
\* digit and std::out_of_range when the number is no int.
stoi(str) == stoi_sign(str, SkipWs(str, 1))

\* the prefix of the messages build_from_jsonl and main print
FAILED_TO_OPEN == "Failed to open "

BUILDING == "Building index from "

PROCESSED == "Processed "

BUILD_COMPLETE == "Index building complete!"

\* the text below which a record is skipped, and the line
MinTextLength == 50

MinLineLength == 50

\* how many documents between two progress messages
ProgressEvery == 1000

\* lines 124-129: st is [b, calls, doc_count, cout, threw]; a negative
\* doc_id makes the loop of add_document push until allocation throws
build_add(seed, st, doc_id, url, title, text, ub) ==
  IF doc_id < 0 THEN [st EXCEPT !.threw = TRUE]
  ELSE [st EXCEPT
          !.b = add_document(seed, @, doc_id, url, title, text, ub),
          !.calls = Append(@, [doc_id |-> doc_id, url |-> url,
                               title |-> title, text |-> text]),
          !.doc_count = @ + 1,
          !.cout = IF (st.doc_count + 1) % ProgressEvery = 0
                   THEN Append(@, PROCESSED) ELSE @]

\* lines 118-129
build_text(seed, st, doc_id, url, title, text, ub) ==
  IF text = <<>> \/ Len(text) < MinTextLength THEN st
  ELSE build_add(seed, st, doc_id, url, title, text, ub)

\* lines 117-129
build_doc_id(seed, st, line, n, ub) ==
  IF n.threw THEN [st EXCEPT !.threw = TRUE]
  ELSE build_text(seed, st, n.val,
                  extract_json_field(line, <<"u", "r", "l">>, 0),
                  extract_json_field(line, <<"t", "i", "t", "l", "e">>, 0),
                  extract_json_field(line, <<"t", "e", "x", "t">>, 0), ub)

\* lines 114-129
build_record(seed, st, line, doc_id_str, ub) ==
  IF doc_id_str = <<>> THEN st
  ELSE build_doc_id(seed, st, line, stoi(doc_id_str), ub)

\* lines 112-129: one line of the input
build_line(seed, st, line, ub) ==
  IF line = <<>> \/ Len(line) < MinLineLength THEN st
  ELSE build_record(seed, st, line,
                    extract_json_field(line,
                                       <<"d", "o", "c", "_", "i", "d">>, 0),
                    ub)

\* lines 111-130: the lines from the i-th on, until one throws
RECURSIVE build_lines(_, _, _, _, _)
build_lines(seed, st, lines, i, ub) ==
  IF i > Len(lines) \/ st.threw THEN st
  ELSE build_lines(seed, build_line(seed, st, lines[i], ub), lines, i + 1,
                   ub)

\* lines 132-137
build_end(st) ==
  [b |-> [st.b EXCEPT !.stats_.doc_count = st.doc_count],
   calls |-> st.calls,
   cout |-> IF st.threw THEN st.cout
            ELSE st.cout \o <<BUILD_COMPLETE, "Total documents: ",
                              "Vocabulary size: ">>,
   cerr |-> <<>>,
   threw |-> st.threw]

\* build_from_jsonl(input_file): [b, calls, cout, cerr, threw]: the builder
\* afterwards, the add_document calls made, what was printed, and whether
\* an exception left the function
build_from_jsonl(seed, b, input, ub) ==
  IF ~input.present
  THEN [b |-> b, calls |-> <<>>, cout |-> <<>>, cerr |-> <<FAILED_TO_OPEN>>,
        threw |-> FALSE]
  ELSE build_end(build_lines(seed,
                             [b |-> b, calls |-> <<>>, doc_count |-> 0,
                              cout |-> <<BUILDING>>, threw |-> FALSE],
                             input.lines, 1, ub))

(***************************************************************************)
(* SearchEngine (search_engine.h, search_engine.cpp)                       *)
(***************************************************************************)
SearchEngine0 ==
  [inverted_index_ |-> HashMap0, doc_urls_ |-> <<>>, doc_titles_ |-> <<>>,
   doc_lengths_ |-> <<>>, stemmer_ |-> PorterStemmer0]

SearchPosting(doc_id, tf) == [doc_id |-> doc_id, tf |-> tf]

\* index_file.read of one int at position pos (1-based) into a variable
\* holding old: a read past the end leaves the variable as it was
ReadInt(ints, pos, old) == IF pos <= Len(ints) THEN ints[pos] ELSE old

\* the loop reading actual_size postings (lines 36-42): doc_id and tf are
\* uninitialised locals, ub_int is what they hold
RECURSIVE read_postings(_, _, _, _, _)
read_postings(ints, pos, i, actual_size, ub_int) ==
  IF i >= actual_size THEN <<>>
  ELSE <<SearchPosting(ReadInt(ints, pos, ub_int),
                       ReadInt(ints, pos + 1, ub_int))>>
         \o read_postings(ints, pos + 2, i + 1, actual_size, ub_int)

\* lines 31-44 for one line of vocabulary.txt: the posting list read from
\* index.bin at pos is inserted under term
load_term(seed, index, term, posting_list) ==
  [index |-> insert(seed, index, term, posting_list),
   read |-> 1 + 2 * Len(posting_list)]

\* the loop over the lines of vocabulary.txt (lines 24-45); t is [index,
\* read]: the map and how many ints of index.bin the last line read; pos is
\* the read position in index.bin before that
RECURSIVE load_vocabulary(_, _, _, _, _, _)
load_vocabulary(seed, t, lines, ints, pos, ub_int) ==
  IF lines = <<>> THEN t.index
  ELSE load_vocabulary(seed,
         load_term(seed, t.index,
                   ExtractWord(ExtractInt(IStream(Head(lines)), ub_int).is,
                               <<>>).val,
                   read_postings(ints, pos + t.read + 1, 0,
                                 ReadInt(ints, pos + t.read, ub_int), ub_int)),
         Tail(lines), ints, pos + t.read, ub_int)

\* lines 52-55: the fields of one line of documents.txt, r1 being what
\* `iss >> doc_id` gave, r2 the first getline and r3 the second
read_title(r3, doc_id) ==
  [doc_id |-> doc_id, url |-> r3.val,
   title |-> GetLine(r3.is, <<>>, "\n").val]

read_url(r2, doc_id) == read_title(GetLine(r2.is, r2.val, "\t"), doc_id)

read_document(r1) == read_url(GetLine(r1.is, <<>>, "\t"), r1.val)

\* lines 57-64: the arrays grown to doc_id + 1 slots, url and title stored;
\* a negative doc_id makes the growing loop run until allocation fails
load_document(docs, d) ==
  IF d.doc_id < 0 THEN [docs EXCEPT !.threw = TRUE]
  ELSE LET n == Pushes(docs.urls, d.doc_id) IN
       [urls |-> [PushN(docs.urls, n, <<>>) EXCEPT ![d.doc_id + 1] = d.url],
        titles |-> [PushN(docs.titles, n, <<>>)
                      EXCEPT ![d.doc_id + 1] = d.title],
        lengths |-> PushN(docs.lengths, n, 0),
        threw |-> FALSE]

\* the loop over the lines of documents.txt (lines 47-65):
\* [urls, titles, lengths, threw]; doc_id is an uninitialised local
RECURSIVE load_documents(_, _, _)
load_documents(docs, lines, ub_int) ==
  IF lines = <<>> \/ docs.threw THEN docs
  ELSE load_documents(
         load_document(docs,
                       read_document(ExtractInt(IStream(Head(lines)),
                                                ub_int))),
         Tail(lines), ub_int)

\* the loop over doc_lengths.txt (lines 67-75), r1 being what
\* `lengths_file >> doc_length` gave
RECURSIVE load_lengths(_, _, _)
load_lengths(lengths, r1, length_idx) ==
  IF r1.is.fail THEN lengths
  ELSE load_lengths([PushN(lengths, Pushes(lengths, length_idx), 0)
                       EXCEPT ![length_idx + 1] = r1.val],
                    ExtractInt(r1.is, r1.val), length_idx + 1)

\* load_index once the three files are open, docs being the document
\* arrays after the loop over documents.txt
load_files(seed, e, disk, ub_int, docs) ==
  [ok |-> ~docs.threw,
   e |-> [e EXCEPT
            !.inverted_index_ =
               load_vocabulary(seed, [index |-> @, read |-> 0],
                               SplitLines(disk.vocabulary, 1, <<>>),
                               disk.index, 1, ub_int),
            !.doc_urls_ = docs.urls,
            !.doc_titles_ = docs.titles,
            !.doc_lengths_ =
               IF "doc_lengths.txt" \in disk.present
               THEN load_lengths(docs.lengths,
                                 ExtractInt(IStream(disk.doc_lengths), 0), 0)
               ELSE docs.lengths],
   threw |-> docs.threw]

\* load_index without the test that the files are open
load_index_unchecked(seed, e, disk, ub_int) ==
  load_files(seed, e, disk, ub_int,
             load_documents(
               [urls |-> e.doc_urls_, titles |-> e.doc_titles_,
                lengths |-> e.doc_lengths_, threw |-> FALSE],
               SplitLines(disk.documents, 1, <<>>), ub_int))

\* load_index: [ok, e, threw]
load_index(seed, e, disk, ub_int) ==
  IF ~({"vocabulary.txt", "index.bin", "documents.txt"} \subseteq disk.present)
  THEN [ok |-> FALSE, e |-> e, threw |-> FALSE]
  ELSE load_files(seed, e, disk, ub_int,
                  load_documents(
                    [urls |-> e.doc_urls_, titles |-> e.doc_titles_,
                     lengths |-> e.doc_lengths_, threw |-> FALSE],
                    SplitLines(disk.documents, 1, <<>>), ub_int))

RECURSIVE intersect_loop(_, _, _, _, _)
intersect_loop(list1, list2, i, j, result) ==
  IF i < Len(list1) /\ j < Len(list2)
  THEN IF list1[i + 1] = list2[j + 1]
       THEN intersect_loop(list1, list2, i + 1, j + 1,
                           Append(result, list1[i + 1]))
       ELSE IF list1[i + 1] < list2[j + 1]
       THEN intersect_loop(list1, list2, i + 1, j, result)
       ELSE intersect_loop(list1, list2, i, j + 1, result)
  ELSE result

intersect(list1, list2) == intersect_loop(list1, list2, 0, 0, <<>>)

\* a union that appends list2 to list1 without merging
union_append(list1, list2) == list1 \o list2

RECURSIVE union_loop(_, _, _, _, _)
union_loop(list1, list2, i, j, result) ==
  IF i < Len(list1) \/ j < Len(list2)
  THEN IF i < Len(list1) /\ (j >= Len(list2) \/ list1[i + 1] < list2[j + 1])
       THEN union_loop(list1, list2, i + 1, j, Append(result, list1[i + 1]))
       ELSE IF j < Len(list2)
               /\ (i >= Len(list1) \/ list2[j + 1] < list1[i + 1])
       THEN union_loop(list1, list2, i, j + 1, Append(result, list2[j + 1]))
       ELSE union_loop(list1, list2, i + 1, j + 1,
                       Append(result, list1[i + 1]))
  ELSE result

union_lists(list1, list2) == union_loop(list1, list2, 0, 0, <<>>)

\* one iteration of the loop on [i, j, result]; none once i has reached the
\* end of list1
difference_step(list1, list2, st) ==
  IF st.i < Len(list1)
  THEN IF st.j >= Len(list2)
       THEN [st EXCEPT !.i = @ + 1,
                       !.result = Append(@, list1[st.i + 1])]
       ELSE IF list1[st.i + 1] = list2[st.j + 1]
       THEN [st EXCEPT !.i = @ + 1, !.j = @ + 1]
       ELSE IF list1[st.i + 1] < list2[st.j + 1]
       THEN [st EXCEPT !.i = @ + 1,
                       !.result = Append(@, list1[st.i + 1])]
       ELSE [st EXCEPT !.j = @ + 1]
  ELSE st

\* n iterations, one after the other, unless the loop ends before: the first
\* half of them, then the rest
RECURSIVE difference_steps(_, _, _, _)
difference_steps(list1, list2, st, n) ==
  IF n <= 0 \/ st.i >= Len(list1) THEN st
  ELSE IF n = 1 THEN difference_step(list1, list2, st)
  ELSE difference_steps(list1, list2,
                        difference_steps(list1, list2, st, n \div 2),
                        n - (n \div 2))

\* the loop from i and j on: an iteration moves i or j forward, so it ends
\* within as many iterations as the two lists have elements left
difference_loop(list1, list2, i, j, result) ==
  difference_steps(list1, list2, [i |-> i, j |-> j, result |-> result],
                   (Len(list1) - i) + (Len(list2) - j)).result

difference(list1, list2) == difference_loop(list1, list2, 0, 0, <<>>)

\* the iterations i .. n-1 of the loop, in order: the first half of them,
\* then the rest
RECURSIVE all_ids_loop(_, _, _)
all_ids_loop(urls, i, n) ==
  IF n <= i THEN <<>>
  ELSE IF n = i + 1
  THEN IF urls[i + 1] # <<>> THEN <<i>> ELSE <<>>
  ELSE all_ids_loop(urls, i, (i + n) \div 2)
         \o all_ids_loop(urls, (i + n) \div 2, n)

all_document_ids(e) == all_ids_loop(e.doc_urls_, 0, Len(e.doc_urls_))

\* posting_doc_ids, f being what find returned
doc_ids_of(f) ==
  IF ~f.found THEN <<>> ELSE [i \in 1..Len(f.value) |-> f.value[i].doc_id]

posting_doc_ids(seed, e, stemmed_term) ==
  doc_ids_of(find(seed, e.inverted_index_, stemmed_term, <<>>))

AND == <<"a","n","d">>

OR == <<"o","r">>

NOT == <<"n","o","t">>

LPAREN == <<"(">>

RPAREN == <<")">>

\* the operator test without "not"
is_and_or(token) == token \in {AND, OR}

is_operator_token(token) == token \in {AND, OR, NOT}

operator_precedence(op) ==
  IF op = NOT THEN 3 ELSE IF op = AND THEN 2 ELSE IF op = OR THEN 1 ELSE 0

is_left_associative(op) == op # NOT

to_lower_ascii(text) == [i \in 1..Len(text) |-> tolower(text[i])]

RECURSIVE trim_left(_, _)
trim_left(lowered, left) ==
  IF left < Len(lowered) /\ ~isalnum(lowered[left + 1])
     /\ lowered[left + 1] # "'"
  THEN trim_left(lowered, left + 1) ELSE left

RECURSIVE trim_right(_, _, _)
trim_right(lowered, left, right) ==
  IF right > left /\ ~isalnum(lowered[right]) /\ lowered[right] # "'"
  THEN trim_right(lowered, left, right - 1) ELSE right

normalize_query_token(token) ==
  IF token = LPAREN \/ token = RPAREN THEN token
  ELSE LET lowered == to_lower_ascii(token) IN
       IF lowered = <<>> THEN lowered
       ELSE LET left  == trim_left(lowered, 0)
                right == trim_right(lowered, left, Len(lowered))
            IN  IF right <= left THEN <<>>
                ELSE SubSeq(lowered, left + 1, right)

\* a DynamicArray used as a stack: operator[](size() - 1) and pop_back.
\* Reading the last element of an empty array is undefined; the model
\* returns <<>> for it and the callers record it in their `bad` flag.
Back(stack) == IF stack = <<>> THEN <<>> ELSE stack[Len(stack)]

PopBack(stack) ==
  IF stack = <<>> THEN stack ELSE SubSeq(stack, 1, Len(stack) - 1)

\* to_rpn's state is [output, op_stack, bad]; bad records that op_stack was
\* read or popped while empty.
\* token ")": pop operators to the output until "(" (lines 266-269)
RECURSIVE rpn_close(_)
rpn_close(t) ==
  IF t.op_stack # <<>> /\ Back(t.op_stack) # LPAREN
  THEN rpn_close([t EXCEPT !.output = Append(@, Back(t.op_stack)),
                           !.op_stack = PopBack(@),
                           !.bad = @ \/ t.op_stack = <<>>])
  ELSE t

\* an operator token: pop the operators that bind at least as tightly
\* (lines 281-292)
RECURSIVE rpn_pop_ops(_, _)
rpn_pop_ops(t, tok) ==
  IF t.op_stack # <<>> /\ is_operator_token(Back(t.op_stack))
  THEN LET top      == Back(t.op_stack)
           top_prec == operator_precedence(top)
           cur_prec == operator_precedence(tok)
           should_pop == top_prec > cur_prec
                         \/ (top_prec = cur_prec /\ is_left_associative(tok))
       IN  IF ~should_pop THEN t
           ELSE rpn_pop_ops([t EXCEPT !.output = Append(@, top),
                                      !.op_stack = PopBack(@),
                                      !.bad = @ \/ t.op_stack = <<>>], tok)
  ELSE t

\* after the last token: empty the operator stack (lines 296-301)
RECURSIVE rpn_flush(_)
rpn_flush(t) ==
  IF t.op_stack # <<>>
  THEN rpn_flush([t EXCEPT
                    !.output = IF Back(t.op_stack) # LPAREN
                               THEN Append(@, Back(t.op_stack)) ELSE @,
                    !.op_stack = PopBack(@),
                    !.bad = @ \/ t.op_stack = <<>>])
  ELSE t

\* token ")": after the loop, the "(" is popped if there is one
\* (lines 270-272)
rpn_drop_paren(u) ==
  IF u.op_stack # <<>> /\ Back(u.op_stack) = LPAREN
  THEN [u EXCEPT !.op_stack = PopBack(@), !.bad = @ \/ u.op_stack = <<>>]
  ELSE u

\* one token of the loop (lines 255-293)
rpn_token(t, tok) ==
  IF tok = <<>> THEN t
  ELSE IF tok = LPAREN THEN [t EXCEPT !.op_stack = Append(@, tok)]
  ELSE IF tok = RPAREN THEN rpn_drop_paren(rpn_close(t))
  ELSE IF ~is_operator_token(tok) THEN [t EXCEPT !.output = Append(@, tok)]
  ELSE [rpn_pop_ops(t, tok) EXCEPT !.op_stack = Append(@, tok)]

RECURSIVE rpn_loop(_, _)
rpn_loop(t, tokens) ==
  IF tokens = <<>> THEN rpn_flush(t)
  ELSE rpn_loop(rpn_token(t, Head(tokens)), Tail(tokens))

\* to_rpn(tokens): [output, op_stack, bad] at its return
to_rpn_run(tokens) ==
  rpn_loop([output |-> <<>>, op_stack |-> <<>>, bad |-> FALSE], tokens)

to_rpn(tokens) == to_rpn_run(tokens).output

\* eval_rpn's state is [stack, stemmer, bad]: the stack of doc_id lists,
\* the engine's stemmer_, and whether stack was read or popped while empty.
\* `not` (lines 317-332)
eval_not(e, v) ==
  IF v.stack = <<>> THEN v
  ELSE LET right  == Back(v.stack)
           stack1 == PopBack(v.stack)
           left   == IF stack1 # <<>> THEN Back(stack1)
                     ELSE all_document_ids(e)
           stack2 == IF stack1 # <<>> THEN PopBack(stack1) ELSE stack1
       IN  [v EXCEPT !.stack = Append(stack2, difference(left, right)),
                     !.bad = @ \/ v.stack = <<>>]

\* `and`, `or` without the test of the stack's size
eval_binary_unchecked(v, tok) ==
  [v EXCEPT
     !.stack = IF tok = AND
               THEN Append(PopBack(PopBack(v.stack)),
                           intersect(Back(PopBack(v.stack)), Back(v.stack)))
               ELSE IF tok = OR
               THEN Append(PopBack(PopBack(v.stack)),
                           union_lists(Back(PopBack(v.stack)), Back(v.stack)))
               ELSE PopBack(PopBack(v.stack)),
     !.bad = @ \/ Len(v.stack) < 2]

\* `and`, `or` (lines 334-347)
eval_binary(v, tok) ==
  IF Len(v.stack) < 2 THEN v
  ELSE LET right  == Back(v.stack)
           stack1 == PopBack(v.stack)
           left   == Back(stack1)
           stack2 == PopBack(stack1)
       IN  [v EXCEPT
              !.stack = IF tok = AND
                        THEN Append(stack2, intersect(left, right))
                        ELSE IF tok = OR
                        THEN Append(stack2, union_lists(left, right))
                        ELSE stack2,
              !.bad = @ \/ v.stack = <<>> \/ stack1 = <<>>]

\* a term (lines 312-314), res being what stem returned
eval_term(seed, e, v, res) ==
  [v EXCEPT !.stack = Append(@, posting_doc_ids(seed, e, res.out)),
            !.stemmer = res.st]

\* one token of the loop (lines 310-347)
eval_token(seed, e, v, tok, ub) ==
  IF ~is_operator_token(tok)
  THEN eval_term(seed, e, v, stem_run(v.stemmer, tok, ub))
  ELSE IF tok = NOT THEN eval_not(e, v)
  ELSE eval_binary(v, tok)

RECURSIVE eval_loop(_, _, _, _, _)
eval_loop(seed, e, v, rpn_tokens, ub) ==
  IF rpn_tokens = <<>> THEN v
  ELSE eval_loop(seed, e, eval_token(seed, e, v, Head(rpn_tokens), ub),
                 Tail(rpn_tokens), ub)

\* lines 350-353: what eval_rpn returns after the loop
eval_return(v) ==
  [docs |-> IF v.stack = <<>> THEN <<>> ELSE Back(v.stack),
   stack |-> v.stack, stemmer |-> v.stemmer, bad |-> v.bad]

\* eval_rpn(rpn_tokens): [docs, stack, stemmer, bad] at its return
eval_rpn(seed, e, rpn_tokens, ub) ==
  eval_return(eval_loop(seed, e,
                        [stack |-> <<>>, stemmer |-> e.stemmer_,
                         bad |-> FALSE],
                        rpn_tokens, ub))

\* lines 363-379 of extract_query_terms, res being what stem returned; acc
\* is [terms, stemmer]
add_query_term(acc, res) ==
  [terms |-> IF res.out = <<>> \/ res.out \in Range(acc.terms)
             THEN acc.terms ELSE Append(acc.terms, res.out),
   stemmer |-> res.st]

\* extract_query_terms: [terms, stemmer]
RECURSIVE extract_query_terms(_, _, _)
extract_query_terms(acc, tokens, ub) ==
  IF tokens = <<>> THEN acc
  ELSE IF Head(tokens) = <<>> \/ is_operator_token(Head(tokens))
          \/ Head(tokens) = LPAREN \/ Head(tokens) = RPAREN
  THEN extract_query_terms(acc, Tail(tokens), ub)
  ELSE extract_query_terms(
         add_query_term(acc, stem_run(acc.stemmer, Head(tokens), ub)),
         Tail(tokens), ub)

\* compute_doc_score: -1.0 for a doc_id outside the document arrays; else
\* a double computed with log and sqrt, which the model does not compute:
\* weight[doc_id] stands for it, an arbitrary value of an ordered set
compute_doc_score(e, doc_id, weight) ==
  IF doc_id < 0 \/ doc_id >= Len(e.doc_urls_) THEN -1 ELSE weight[doc_id]

\* the inner loop of the selection sort (lines 466-471): best_idx
\* the iterations j .. n-1 of the loop, in order: iteration j, then the
\* first half of the others, then the rest
RECURSIVE best_range(_, _, _, _, _)
best_range(doc_ids, scores, j, n, best_idx) ==
  IF n <= j THEN best_idx
  ELSE IF scores[j + 1] > scores[best_idx + 1]
          \/ (scores[j + 1] = scores[best_idx + 1]
              /\ doc_ids[j + 1] < doc_ids[best_idx + 1])
  THEN best_range(doc_ids, scores, (j + 1 + n) \div 2, n,
                  best_range(doc_ids, scores, j + 1, (j + 1 + n) \div 2, j))
  ELSE best_range(doc_ids, scores, (j + 1 + n) \div 2, n,
                  best_range(doc_ids, scores, j + 1, (j + 1 + n) \div 2,
                             best_idx))

best_from(doc_ids, scores, j, best_idx) ==
  best_range(doc_ids, scores, j, Len(doc_ids), best_idx)

Swap(arr, i, j) == [arr EXCEPT ![i + 1] = arr[j + 1], ![j + 1] = arr[i + 1]]

\* lines 472-480: the swap, ranked being [doc_ids, scores]
rank_swap(ranked, i, best_idx) ==
  IF best_idx # i
  THEN [doc_ids |-> Swap(ranked.doc_ids, i, best_idx),
        scores |-> Swap(ranked.scores, i, best_idx)]
  ELSE ranked

\* iteration i of the selection sort
rank_step(ranked, i) ==
  rank_swap(ranked, i, best_from(ranked.doc_ids, ranked.scores, i + 1, i))

\* the iterations i .. n-1 of the selection sort, in order: the first half
\* of them, then the rest
RECURSIVE rank_range(_, _, _)
rank_range(ranked, i, n) ==
  IF n <= i \/ i >= Len(ranked.doc_ids) THEN ranked
  ELSE IF n = i + 1 THEN rank_step(ranked, i)
  ELSE rank_range(rank_range(ranked, i, (i + n) \div 2), (i + n) \div 2, n)

\* the selection sort (lines 464-481): [doc_ids, scores]
rank_loop(doc_ids, scores, i) ==
  rank_range([doc_ids |-> doc_ids, scores |-> scores], i, Len(doc_ids))

SearchResult(doc_id, url, title) ==
  [doc_id |-> doc_id, url |-> url, title |-> title]

\* the number of results search returns at most
MaxResults == 100

\* the iterations i .. n-1 of the loop building the results, in order: the
\* first half of them, then the rest
RECURSIVE take_range(_, _, _, _)
take_range(e, doc_ids, i, n) ==
  IF n <= i THEN <<>>
  ELSE IF n = i + 1
  THEN IF doc_ids[i + 1] >= 0 /\ doc_ids[i + 1] < Len(e.doc_urls_)
       THEN <<SearchResult(doc_ids[i + 1], e.doc_urls_[doc_ids[i + 1] + 1],
                           e.doc_titles_[doc_ids[i + 1] + 1])>>
       ELSE <<>>
  ELSE take_range(e, doc_ids, i, (i + n) \div 2)
         \o take_range(e, doc_ids, (i + n) \div 2, n)

\* the loop building the results without the bound on their number
take_all(e, doc_ids, i) == take_range(e, doc_ids, i, Len(doc_ids))

\* the loop building the results (lines 483-488)
take_results(e, doc_ids, i) ==
  take_range(e, doc_ids, i,
             IF Len(doc_ids) < MaxResults THEN Len(doc_ids) ELSE MaxResults)

\* lines 426-436: every parenthesis surrounded by spaces
RECURSIVE prepare_query(_)
prepare_query(query) ==
  IF query = <<>> THEN <<>>
  ELSE (IF Head(query) \in {"(", ")"} THEN <<" ", Head(query), " ">>
        ELSE <<Head(query)>>) \o prepare_query(Tail(query))

\* lines 438-446: the normalised, non-empty tokens of the prepared query
RECURSIVE lex_query(_, _)
lex_query(is, query_tokens) ==
  LET r1 == ExtractWord(is, <<>>) IN
  IF r1.is.fail THEN query_tokens
  ELSE LET normalized == normalize_query_token(r1.val) IN
       lex_query(r1.is, IF normalized # <<>>
                        THEN Append(query_tokens, normalized)
                        ELSE query_tokens)

query_tokens_of(query) == lex_query(IStream(prepare_query(query)), <<>>)

\* lines 453-457 of search, ev being what eval_rpn returned and rpn_bad
\* whether to_rpn read its stack while empty
match_terms(ev, rpn_bad, qt) ==
  [empty |-> FALSE, docs |-> ev.docs, query_terms |-> qt.terms,
   stemmer |-> qt.stemmer, bad |-> rpn_bad \/ ev.bad]

match_rpn(ev, rpn_bad, query_tokens, ub) ==
  match_terms(ev, rpn_bad,
              extract_query_terms([terms |-> <<>>, stemmer |-> ev.stemmer],
                                  query_tokens, ub))

\* lines 448-457 of search
match_tokens(seed, e, query_tokens, rpn, ub) ==
  IF query_tokens = <<>>
  THEN [empty |-> TRUE, docs |-> <<>>, query_terms |-> <<>>,
        stemmer |-> e.stemmer_, bad |-> FALSE]
  ELSE match_rpn(eval_rpn(seed, e, rpn.output, ub), rpn.bad, query_tokens,
                 ub)

match_query(seed, e, query_tokens, ub) ==
  match_tokens(seed, e, query_tokens, to_rpn_run(query_tokens), ub)

\* lines 424-457 of search: the query's tokens, their RPN, the evaluated
\* doc_ids and the query terms: [empty, docs, query_terms, stemmer, bad];
\* bad says that a stack was read or popped while empty
search_match(seed, e, query, ub) ==
  match_query(seed, e, query_tokens_of(query), ub)

\* lines 483-490 of search, ranked being the selection sort's result
search_return(e, m, ranked) ==
  [results |-> IF m.empty THEN <<>> ELSE take_results(e, ranked.doc_ids, 0),
   total_matches |-> Len(m.docs),
   doc_ids |-> ranked.doc_ids,
   scores |-> ranked.scores,
   e |-> [e EXCEPT !.stemmer_ = m.stemmer],
   bad |-> m.bad]

\* lines 459-490 of search: the scores, the selection sort and the results:
\* [results, total_matches, doc_ids, scores, e, bad]: what search returns,
\* the ranked doc_ids with their scores and the engine afterwards (search
\* writes stemmer_)
search_rank(e, m, weight) ==
  search_return(e, m,
    rank_loop(m.docs,
              [i \in 1..Len(m.docs) |-> compute_doc_score(e, m.docs[i], weight)],
              0))

\* search(query, &total_matches)
search(seed, e, query, ub, weight) ==
  search_rank(e, search_match(seed, e, query, ub), weight)

(***************************************************************************)
(* The programs as one state machine: index_builder_main builds and saves  *)
(* the index, the query program loads it and answers queries.              *)
(***************************************************************************)
VARIABLES
  hash_seed,  \* which std::hash<std::string> the build has
  builder,    \* the IndexBuilder
  calls,      \* history: the arguments of the add_document calls, in order
  disk,       \* the index directory
  engine,     \* the SearchEngine
  loaded,     \* load_index: "no" (not called), "true", "false", "threw"
  found,      \* the query in progress and what search returned for it
  fn,         \* a function applied on its own: its arguments and result
  files,      \* what index_builder_main finds: its input file, and whether
              \* the index directory can be written
  main,       \* index_builder_main: where it is, what it printed, its exit
  threads,    \* the threads calling search on the one engine: where each
              \* is and its local variables
  cli         \* the query program: the lines it has read and printed

\* the variables of index_builder_main as a program, of the threads and of
\* the query program
programs == <<files, main, threads, cli>>

vars ==
  <<hash_seed, builder, calls, disk, engine, loaded, found, fn, programs>>

\* how many add_document calls a build makes
MaxAdds == 2

\* the largest doc_id a caller passes
MaxDocId == 1

\* how many queries the query program answers
MaxQueries == 1

\* std::hash<std::string> is one of these
HashSeeds == {0, 1}

\* what a read of word_ outside the string can yield
UBChars == {NUL, "s"}

\* what an uninitialised int can hold
UBInts == {-1, 0, 2}

\* the values compute_doc_score can take for the documents of a query
Scores == {0, 1}

DocIds == 0..MaxDocId

\* document texts: two content words; one stem twice, under two surface
\* forms; a stop word alone (no token)
Texts ==
  { <<"c", "a", "t", " ", "d", "o", "g">>,
    <<"c", "a", "t", "s", " ", "c", "a", "t">>, <<"t", "h", "e">> }

\* urls: a plain one and the empty one
Urls ==
  { <<"u">>, <<>> }

Titles ==
  { <<"t">> }

\* urls and titles with the characters that separate the fields and the
\* records of documents.txt
RawUrls ==
  { <<"u">>, <<"a", "\t", "b">>, <<"a", "\n", "b">> }

RawTitles ==
  { <<"t">>, <<"x", "\n", "y">> }

RawTexts ==
  { <<"c", "a", "t">> }

\* the documents of the query runs
QueryUrls ==
  { <<"u">> }

QueryTexts ==
  { <<"c", "a", "t", " ", "d", "o", "g">>, <<"c", "a", "t">> }

\* query lines: empty, blank, an unknown term, a term, the NOT forms, and
\* malformed ones (operators alone, leading, trailing, consecutive, unmatched
\* parentheses)
Queries ==
  { <<>>, <<" ">>, <<"z", "z">>, <<"c", "a", "t">>,
    <<"N", "O", "T", " ", "d", "o", "g">>,
    <<"c", "a", "t", " ", "N", "O", "T", " ", "d", "o", "g">>,
    <<"c", "a", "t", " ", "A", "N", "D", " ", "N", "O", "T", " ", "d", "o", "g">>,
    <<"d", "o", "g", " ", "N", "O", "T", " ", "c", "a", "t">>,
    <<"A", "N", "D">>, <<"N", "O", "T">>,
    <<"c", "a", "t", " ", "A", "N", "D">>,
    <<"O", "R", " ", "c", "a", "t">>,
    <<"c", "a", "t", " ", "A", "N", "D", " ", "O", "R", " ", "d", "o", "g">>,
    <<"(", "c", "a", "t">>, <<"c", "a", "t", ")">>, <<")", "(">> }

\* the documents of the queries on precedence: three terms, each document
\* with one or two of them
BoolTexts ==
  { <<"a", "x">>, <<"o", "x", " ", "p", "i">>,
    <<"p", "i">> }

\* and/or queries that a wrong precedence or grouping answers differently
BoolQueries ==
  { <<"a", "x", " ", "O", "R", " ", "o", "x", " ", "A", "N", "D", " ", "p", "i">>,
    <<"a", "x", " ", "A", "N", "D", " ", "o", "x", " ", "O", "R", " ", "p", "i">>,
    <<"(", "a", "x", " ", "O", "R", " ", "o", "x", ")", " ", "A", "N", "D", " ", "p", "i">> }

NoCall == [op |-> "none"]

\* index_builder_main not started: pc is the statement main is at, cout and
\* cerr the messages printed so far, exit_status what main returned, signal
\* the signal that ended the process (an exception nothing catches ends it
\* in std::terminate, with SIGABRT)
NoMain ==
  [pc |-> "none", cout |-> <<>>, cerr |-> <<>>, exit_status |-> 0,
   signal |-> "none"]

NoFiles == [input |-> [present |-> FALSE, lines |-> <<>>], index_dir |-> FALSE]

\* the threads that call search
Threads == {1, 2}

\* a thread that has not called search: pc is where it is in search, the
\* other fields are the local variables of search and eval_rpn
NoThread ==
  [pc |-> "none", query |-> <<>>, query_tokens |-> <<>>, rpn |-> <<>>,
   i |-> 0, stack |-> <<>>, results |-> <<>>, total_matches |-> 0]

\* the query program before its first line: read counts the lines read,
\* query is the last of them, cout the lines printed and mark how many of
\* them were printed before the last line was read
NoCli == [read |-> 0, query |-> <<>>, cout |-> <<>>, mark |-> 0]

\* the programs as the other specifications have them: not run
NoPrograms ==
  /\ files = NoFiles
  /\ main = NoMain
  /\ threads = [t \in Threads |-> NoThread]
  /\ cli = NoCli

NoSearch ==
  [called |-> FALSE, n |-> 0, query |-> <<>>, results |-> <<>>,
   total_matches |-> 0, doc_ids |-> <<>>, scores |-> <<>>, bad |-> FALSE]

Init ==
  /\ hash_seed \in HashSeeds
  /\ builder = IndexBuilder0
  /\ calls = <<>>
  /\ disk = Disk0
  /\ engine = SearchEngine0
  /\ loaded = "no"
  /\ found = NoSearch
  /\ fn = NoCall
  /\ NoPrograms

\* builder.add_document(doc_id, url, title, text), before the index is
\* saved (index_builder_main saves once, after the build)
AddDocument(urls, titles, texts) ==
  /\ Len(calls) < MaxAdds
  /\ disk = Disk0
  /\ \E doc_id \in DocIds, url \in urls, title \in titles, text \in texts,
        ub \in UBChars :
       /\ builder' = add_document(hash_seed, builder, doc_id, url, title,
                                  text, ub)
       /\ calls' = Append(calls, [doc_id |-> doc_id, url |-> url,
                                  title |-> title, text |-> text])
  /\ UNCHANGED <<hash_seed, disk, engine, loaded, found, fn, programs>>

\* builder.save_index(output_dir)
SaveIndex ==
  /\ disk = Disk0
  /\ disk' = save_index(builder)
  /\ UNCHANGED <<hash_seed, builder, calls, engine, loaded, found, fn,
               programs>>

\* load_index returns res
LoadIndexReturns(res) ==
  /\ engine' = res.e
  /\ loaded' = IF res.threw THEN "threw"
               ELSE IF res.ok THEN "true" ELSE "false"

\* engine.load_index(index_dir), once the index is saved
LoadIndex ==
  /\ loaded = "no"
  /\ disk # Disk0
  /\ \E ub_int \in UBInts :
       LoadIndexReturns(load_index(hash_seed, engine, disk, ub_int))
  /\ UNCHANGED <<hash_seed, builder, calls, disk, found, fn, programs>>

\* the documents compute_doc_score is called for and gives a score >= 0
Scored(e, docs) == {d \in Range(docs) : d >= 0 /\ d < Len(e.doc_urls_)}

\* search returns res
SearchReturns(query, res) ==
  /\ found' = [called |-> TRUE, n |-> found.n + 1, query |-> query,
               results |-> res.results, total_matches |-> res.total_matches,
               doc_ids |-> res.doc_ids, scores |-> res.scores,
               bad |-> res.bad]
  /\ engine' = res.e

\* the second half of search, m being the matching documents
SearchRanks(query, m) ==
  \E weight \in [Scored(engine, m.docs) -> Scores] :
    SearchReturns(query, search_rank(engine, m, weight))

\* engine.search(query, &total) on a loaded engine
Search(queries) ==
  /\ loaded = "true"
  /\ ~found.called
  /\ found.n < MaxQueries
  /\ \E query \in queries, ub \in UBChars :
       SearchRanks(query, search_match(hash_seed, engine, query, ub))
  /\ UNCHANGED <<hash_seed, builder, calls, disk, loaded, fn, programs>>

\* the query loop's iteration ends: the results go out of scope
EndQuery ==
  /\ found.called
  /\ found' = [NoSearch EXCEPT !.n = found.n]
  /\ UNCHANGED <<hash_seed, builder, calls, disk, engine, loaded, fn,
               programs>>

\* the build of an index and its loading
Next ==
  \/ AddDocument(Urls, Titles, Texts)
  \/ SaveIndex
  \/ LoadIndex

Spec == Init /\ [][Next]_vars

\* the same with urls and titles that hold tabs and newlines
NextRoundTrip ==
  \/ AddDocument(RawUrls, RawTitles, RawTexts)
  \/ SaveIndex
  \/ LoadIndex

SpecRoundTrip == Init /\ [][NextRoundTrip]_vars

\* a build, and queries on the loaded index
NextQuery ==
  \/ AddDocument(QueryUrls, Titles, QueryTexts)
  \/ SaveIndex
  \/ LoadIndex
  \/ Search(Queries)
  \/ EndQuery

SpecQuery == Init /\ [][NextQuery]_vars

\* a build, and and/or queries on the loaded index
NextBoolean ==
  \/ AddDocument(QueryUrls, Titles, BoolTexts)
  \/ SaveIndex
  \/ LoadIndex
  \/ Search(BoolQueries)
  \/ EndQuery

SpecBoolean == Init /\ [][NextBoolean]_vars

(***************************************************************************)
(* The functions of the engine applied on their own: the inputs are drawn  *)
(* in the initial state, each action applies one function to them.         *)
(***************************************************************************)
\* the programs idle
Idle ==
  /\ hash_seed \in {0}
  /\ builder = IndexBuilder0
  /\ calls = <<>>
  /\ disk = Disk0
  /\ engine = SearchEngine0
  /\ loaded = "no"
  /\ found = NoSearch
  /\ NoPrograms

Rest ==
  <<hash_seed, builder, calls, disk, engine, loaded, found, programs>>

\* the largest doc_id in the lists the set operations are given
MaxElem == 3

Min(set) == CHOOSE x \in set : \A y \in set : x <= y

RECURSIVE SetToAsc(_)
SetToAsc(set) ==
  IF set = {} THEN <<>> ELSE <<Min(set)>> \o SetToAsc(set \ {Min(set)})

\* the strictly ascending lists over 0..MaxElem
AscLists == {SetToAsc(set) : set \in SUBSET (0..MaxElem)}

InitSetOps ==
  /\ Idle
  /\ fn \in {[op |-> "lists", list1 |-> a, list2 |-> b, result |-> <<>>] :
               a \in AscLists, b \in AscLists}

Intersect ==
  /\ fn.op = "lists"
  /\ fn' = [fn EXCEPT !.op = "intersect",
                      !.result = intersect(fn.list1, fn.list2)]
  /\ UNCHANGED Rest

UnionLists ==
  /\ fn.op = "lists"
  /\ fn' = [fn EXCEPT !.op = "union_lists",
                      !.result = union_lists(fn.list1, fn.list2)]
  /\ UNCHANGED Rest

Difference ==
  /\ fn.op = "lists"
  /\ fn' = [fn EXCEPT !.op = "difference",
                      !.result = difference(fn.list1, fn.list2)]
  /\ UNCHANGED Rest

NextSetOps == Intersect \/ UnionLists \/ Difference

SpecSetOps == InitSetOps /\ [][NextSetOps]_vars

\* the longest string given to the two analysis paths
MaxChars == 3

\* letters of a stop word, an upper-case letter, a digit, a hyphen, a space
AnalyzerChars == {"t", "h", "e", "s", "A", "1", "-", " "}

Strings == UNION {[1..n -> AnalyzerChars] : n \in 0..MaxChars}

InitAnalyzer ==
  /\ Idle
  /\ fn \in {[op |-> "text", s |-> s, indexed |-> FALSE, doc_stems |-> <<>>,
              queried |-> FALSE, query_stems |-> <<>>] : s \in Strings}

\* the indexing path on s: tokenize, then stem each token
IndexText ==
  /\ fn.op = "text"
  /\ ~fn.indexed
  /\ \E ub \in UBChars :
       fn' = [fn EXCEPT !.indexed = TRUE,
                        !.doc_stems = doc_stems(PorterStemmer0,
                                                tokenize(fn.s), ub)]
  /\ UNCHANGED Rest

\* the query path on s: the query's tokens, then the query terms
QueryText ==
  /\ fn.op = "text"
  /\ ~fn.queried
  /\ \E ub \in UBChars :
       fn' = [fn EXCEPT !.queried = TRUE,
                        !.query_stems =
                           extract_query_terms(
                             [terms |-> <<>>, stemmer |-> PorterStemmer0],
                             query_tokens_of(fn.s), ub).terms]
  /\ UNCHANGED Rest

NextAnalyzer == IndexText \/ QueryText

SpecAnalyzer == InitAnalyzer /\ [][NextAnalyzer]_vars

\* the longest token sequence given to to_rpn
MaxTokens == 5

\* what a query token can be: a term, an operator, a parenthesis
RpnTokens == {<<"x">>, AND, OR, NOT, LPAREN, RPAREN}

\* search calls to_rpn on a non-empty token sequence only
TokenSeqs == UNION {[1..n -> RpnTokens] : n \in 1..MaxTokens}

InitRpn ==
  /\ Idle
  /\ fn \in {[op |-> "tokens", tokens |-> tokens, output |-> <<>>,
              bad |-> FALSE] : tokens \in TokenSeqs}

ToRpnReturns(t) ==
  fn' = [fn EXCEPT !.op = "to_rpn", !.output = t.output, !.bad = t.bad]

ToRpn ==
  /\ fn.op = "tokens"
  /\ ToRpnReturns(to_rpn_run(fn.tokens))
  /\ UNCHANGED Rest

NextRpn == ToRpn

SpecRpn == InitRpn /\ [][NextRpn]_vars

(***************************************************************************)
(* The properties                                                          *)
(***************************************************************************)
StrictlyAscending(list) == \A i \in 1..(Len(list) - 1) : list[i] < list[i + 1]

\* the posting lists index.bin holds from position pos on, in file order
RECURSIVE SavedLists(_, _)
SavedLists(ints, pos) ==
  IF pos > Len(ints) THEN <<>>
  ELSE <<[i \in 1..ints[pos] |->
            [doc_id |-> ints[pos + 2 * i - 1], tf |-> ints[pos + 2 * i]]]>>
         \o SavedLists(ints, pos + 1 + 2 * ints[pos])

DocIdsOf(posting_list) ==
  [i \in 1..Len(posting_list) |-> posting_list[i].doc_id]

\* C1: every posting list save_index has written is strictly ascending by
\* doc_id and every posting in it has tf >= 1, whatever the order of the
\* add_document calls was.
C1_SavedListsAscending ==
  disk # Disk0 =>
    \A posting_list \in Range(SavedLists(disk.index, 1)) :
      /\ StrictlyAscending(DocIdsOf(posting_list))
      /\ \A posting \in Range(posting_list) : posting.tf >= 1

\* C2: in the builder's index each doc_id occurs at most once in a term's
\* posting list, also after add_document calls that repeat a doc_id.
C2_OnePostingPerDocument ==
  \A en \in Range(entries(builder.inverted_index_)) :
    \A i, j \in 1..Len(en.value) :
      en.value[i].doc_id = en.value[j].doc_id => i = j

\* the stems of a text's tokens, by the analyzer alone
StemsOf(text) == [i \in 1..Len(tokenize(text)) |-> stem(tokenize(text)[i])]

\* the stems of every text a build can be given
StemsIn ==
  [text \in Texts \cup RawTexts \cup QueryTexts \cup BoolTexts |->
     StemsOf(text)]

\* how many tokens of text have the stem t
StemCount(text, t) ==
  Cardinality({i \in 1..Len(StemsIn[text]) : StemsIn[text][i] = t})

\* the postings the calls made so far are to have recorded for t: one per
\* call whose text has a token with stem t, with that count, in call order
RECURSIVE PostingsDue(_, _)
PostingsDue(cs, t) ==
  IF cs = <<>> THEN <<>>
  ELSE (IF StemCount(Head(cs).text, t) > 0
        THEN <<TermPosting(Head(cs).doc_id, StemCount(Head(cs).text, t))>>
        ELSE <<>>) \o PostingsDue(Tail(cs), t)

\* the stems of the texts a build can be given, and one that none has
Terms ==
  UNION {Range(StemsIn[text]) : text \in DOMAIN StemsIn}
    \cup {<<"z", "z">>}

\* C3: for every add_document call and every term t, the posting recorded
\* for t carries the call's doc_id and the number of tokens of the call's
\* text whose stem is t; a call whose text has no such token records no
\* posting for t.
C3_TfCountsStems ==
  \A t \in Terms :
    find(hash_seed, builder.inverted_index_, t, <<>>).value
      = PostingsDue(calls, t)

\* a document with two tokens of one stem has been indexed: tf = 2
C3_Witness ==
  /\ \E c \in Range(calls) : StemCount(c.text, <<"c", "a", "t">>) = 2
  /\ \E posting \in Range(find(hash_seed, builder.inverted_index_,
                               <<"c", "a", "t">>, <<>>).value) :
       posting.tf = 2

\* C4: on strictly ascending lists, intersect, union_lists and difference
\* return the elements of the intersection, the union and the difference
\* of the two lists' elements, as a strictly ascending list.
C4_SetOperations ==
  /\ fn.op = "intersect" =>
       /\ Range(fn.result) = Range(fn.list1) \cap Range(fn.list2)
       /\ StrictlyAscending(fn.result)
  /\ fn.op = "union_lists" =>
       /\ Range(fn.result) = Range(fn.list1) \cup Range(fn.list2)
       /\ StrictlyAscending(fn.result)
  /\ fn.op = "difference" =>
       /\ Range(fn.result) = Range(fn.list1) \ Range(fn.list2)
       /\ StrictlyAscending(fn.result)

\* the difference of two overlapping lists has been computed
C4_Witness ==
  /\ fn.op = "difference"
  /\ fn.list1 = <<0, 1, 3>>
  /\ fn.list2 = <<1, 2>>
  /\ fn.result = <<0, 3>>

\* the terms of an index
Keys(m) == {en.key : en \in Range(entries(m))}

\* C5: once load_index has read what save_index wrote, the engine's url,
\* title and length arrays and every term's posting list equal the
\* builder's, also for urls and titles that hold tabs or newlines and for
\* doc_ids never added.
C5_RoundTrip ==
  loaded # "no" =>
    /\ loaded = "true"
    /\ engine.doc_urls_ = builder.doc_urls_
    /\ engine.doc_titles_ = builder.doc_titles_
    /\ engine.doc_lengths_ = builder.doc_lengths_
    /\ \A t \in Keys(builder.inverted_index_) \cup Keys(engine.inverted_index_) :
         find(hash_seed, engine.inverted_index_, t, <<>>)
           = find(hash_seed, builder.inverted_index_, t, <<>>)

\* C6: for every string, the stems the query path takes from it as query
\* terms are the stems the indexing path takes from it as document text.
C6_AnalyzerParity ==
  fn.op = "text" /\ fn.indexed /\ fn.queried =>
    fn.query_stems = fn.doc_stems

IsOperator(tok) == tok \in {AND, OR, NOT}

\* the number of values left after rpn is evaluated from depth values, every
\* operator taking two and leaving one; -1 when an operator finds fewer
RECURSIVE PostfixDepth(_, _)
PostfixDepth(rpn, depth) ==
  IF rpn = <<>> THEN depth
  ELSE IF IsOperator(Head(rpn))
  THEN (IF depth < 2 THEN -1 ELSE PostfixDepth(Tail(rpn), depth - 1))
  ELSE PostfixDepth(Tail(rpn), depth + 1)

WellFormedPostfix(rpn) ==
  /\ \A tok \in Range(rpn) : tok \notin {LPAREN, RPAREN}
  /\ PostfixDepth(rpn, 0) = 1

\* an infix expression: terms and parenthesised expressions joined by the
\* operators, every parenthesis matched
RECURSIVE InfixScan(_, _, _)
InfixScan(tokens, operand_due, depth) ==
  IF tokens = <<>> THEN ~operand_due /\ depth = 0
  ELSE IF operand_due
  THEN IF Head(tokens) = LPAREN THEN InfixScan(Tail(tokens), TRUE, depth + 1)
       ELSE IF Head(tokens) = RPAREN \/ IsOperator(Head(tokens)) THEN FALSE
       ELSE InfixScan(Tail(tokens), FALSE, depth)
  ELSE IF Head(tokens) = RPAREN
  THEN depth > 0 /\ InfixScan(Tail(tokens), FALSE, depth - 1)
  ELSE IF IsOperator(Head(tokens)) THEN InfixScan(Tail(tokens), TRUE, depth)
  ELSE FALSE

WellFormedInfix(tokens) == InfixScan(tokens, TRUE, 0)

\* C7 as stated: for every sequence of terms, operators and parentheses,
\* what to_rpn returns is a well-formed postfix expression, and, or and not
\* each taking two operands.
C7_RpnWellFormedForAll ==
  fn.op = "to_rpn" => WellFormedPostfix(fn.output)

\* C7 amended: for every token sequence that is a well-formed infix
\* expression (terms and parenthesised expressions joined by and, or, not
\* as binary operators, parentheses matched), what to_rpn returns is a
\* well-formed postfix expression.
C7_RpnWellFormed ==
  fn.op = "to_rpn" /\ WellFormedInfix(fn.tokens) =>
    WellFormedPostfix(fn.output)

\* to_rpn has reordered a well-formed expression with two operators
C7_Witness ==
  /\ fn.op = "to_rpn"
  /\ fn.tokens = << <<"x">>, OR, <<"x">>, AND, <<"x">> >>
  /\ fn.output = << <<"x">>, <<"x">>, <<"x">>, AND, OR >>

Blank(query) == \A i \in 1..Len(query) : query[i] \in Space

\* the stems the build has indexed
IndexedStems == UNION {Range(StemsIn[c.text]) : c \in Range(calls)}

\* a query that is one word, no operator, whose stem no document has
UnknownTerm(query) ==
  /\ query # <<>>
  /\ \A i \in 1..Len(query) : isalpha(query[i])
  /\ ~IsOperator(to_lower(query))
  /\ stem(to_lower(query)) \notin IndexedStems

\* C8: whatever the query (empty, operators only, operators leading,
\* trailing or consecutive, parentheses unmatched, terms unknown), search
\* returns, to_rpn and eval_rpn have not read or popped an empty stack, and
\* an empty query or a single unknown term gives no result and total 0.
C8_QueryTolerance ==
  found.called =>
    /\ ~found.bad
    /\ Blank(found.query) \/ UnknownTerm(found.query) =>
         found.results = <<>> /\ found.total_matches = 0

\* search has returned for a query that ends in an operator
C8_Witness ==
  /\ found.called
  /\ found.query = <<"c", "a", "t", " ", "A", "N", "D">>
  /\ found.total_matches = 1

\* the doc_ids add_document was called with
Written == {c.doc_id : c \in Range(calls)}

\* document d has a token with stem t
HasStem(d, t) ==
  \E c \in Range(calls) : c.doc_id = d /\ t \in Range(StemsIn[c.text])

ResultIds == {found.results[i].doc_id : i \in 1..Len(found.results)}

CAT == <<"c", "a", "t">>

DOG == <<"d", "o", "g">>

NOT_DOG == <<"N", "O", "T", " ", "d", "o", "g">>

CAT_NOT_DOG == <<"c", "a", "t", " ", "N", "O", "T", " ", "d", "o", "g">>

CAT_AND_NOT_DOG == <<"c", "a", "t", " ", "A", "N", "D", " ", "N", "O", "T", " ", "d", "o", "g">>

DOG_NOT_CAT == <<"d", "o", "g", " ", "N", "O", "T", " ", "c", "a", "t">>

\* search returned exactly the documents of set, each once, and their number
Returned(set) ==
  /\ ResultIds = set
  /\ Len(found.results) = Cardinality(set)
  /\ found.total_matches = Cardinality(set)

\* C9: the query `NOT B` returns exactly the documents added (the doc_ids
\* that are no holes) that have no posting for B's stem.
C9_PureNot ==
  found.called /\ found.query = NOT_DOG =>
    Returned({d \in Written : ~HasStem(d, DOG)})

\* C10: the queries `A NOT B` and `A AND NOT B` both return exactly the
\* documents that have a posting for A and none for B, and total is their
\* number.
C10_BinaryNot ==
  /\ found.called /\ found.query \in {CAT_NOT_DOG, CAT_AND_NOT_DOG} =>
       Returned({d \in Written : HasStem(d, CAT) /\ ~HasStem(d, DOG)})
  /\ found.called /\ found.query = DOG_NOT_CAT =>
       Returned({d \in Written : HasStem(d, DOG) /\ ~HasStem(d, CAT)})

AX == <<"a", "x">>

OX == <<"o", "x">>

PI == <<"p", "i">>

\* the documents added that have a token with stem t
Docs(t) == {d \in Written : HasStem(d, t)}

A_OR_B_AND_C == <<"a", "x", " ", "O", "R", " ", "o", "x", " ", "A", "N", "D", " ", "p", "i">>

A_AND_B_OR_C == <<"a", "x", " ", "A", "N", "D", " ", "o", "x", " ", "O", "R", " ", "p", "i">>

A_OR_B_THEN_AND_C == <<"(", "a", "x", " ", "O", "R", " ", "o", "x", ")", " ", "A", "N", "D", " ", "p", "i">>

\* C11: `and` binds tighter than `or` and parentheses override it: the
\* documents search returns are, as a set, A \cup (B \cap C) for
\* `A OR B AND C`, (A \cap B) \cup C for `A AND B OR C` and
\* (A \cup B) \cap C for `(A OR B) AND C`.
C11_Precedence ==
  found.called =>
    /\ found.query = A_OR_B_AND_C =>
         ResultIds = Docs(AX) \cup (Docs(OX) \cap Docs(PI))
    /\ found.query = A_AND_B_OR_C =>
         ResultIds = (Docs(AX) \cap Docs(OX)) \cup Docs(PI)
    /\ found.query = A_OR_B_THEN_AND_C =>
         ResultIds = (Docs(AX) \cup Docs(OX)) \cap Docs(PI)

\* the places of the ranked list that search turns into results
Shown ==
  {i \in 1..Len(found.doc_ids) :
     /\ i <= MaxResults
     /\ found.doc_ids[i] >= 0
     /\ found.doc_ids[i] < Len(engine.doc_urls_)}

\* places i and j hold two consecutive results
Consecutive(i, j) ==
  /\ i \in Shown /\ j \in Shown /\ i < j
  /\ \A k \in Shown : ~(i < k /\ k < j)

\* C12: any two consecutive results are in order of score descending, and
\* of doc_id ascending where the scores are equal.
C12_RankedOrder ==
  found.called =>
    \A i, j \in 1..Len(found.doc_ids) :
      Consecutive(i, j) =>
        \/ found.scores[i] > found.scores[j]
        \/ /\ found.scores[i] = found.scores[j]
           /\ found.doc_ids[i] < found.doc_ids[j]

(***************************************************************************)
(* The query program on large indexes: the engine has loaded n documents,  *)
(* none with an indexed term, and answers a pure NOT query, which matches  *)
(* them all.                                                               *)
(***************************************************************************)
\* the largest number of documents of such an index
MaxMatches == 102

\* the engine after load_index of an index of n documents, each with url
\* "u", title "t" and no token
LoadedEngine(n) ==
  [SearchEngine0 EXCEPT !.doc_urls_ = [i \in 1..n |-> <<"u">>],
                        !.doc_titles_ = [i \in 1..n |-> <<"t">>],
                        !.doc_lengths_ = [i \in 1..n |-> 0]]

\* a query every document matches
NOT_ZZ == <<"N", "O", "T", " ", "z", "z">>

\* the scores: all equal, or higher for the odd doc_ids
Weights ==
  { [d \in 0..MaxMatches |-> 0], [d \in 0..MaxMatches |-> d % 2] }

InitMany ==
  /\ hash_seed \in HashSeeds
  /\ builder = IndexBuilder0
  /\ calls = <<>>
  /\ disk = Disk0
  /\ engine \in {LoadedEngine(n) : n \in 0..MaxMatches}
  /\ loaded = "true"
  /\ found = NoSearch
  /\ fn = NoCall
  /\ NoPrograms

\* engine.search(query, &total), the scores being one of Weights
SearchMany ==
  /\ loaded = "true"
  /\ ~found.called
  /\ found.n < MaxQueries
  /\ \E weight \in Weights :
       SearchReturns(NOT_ZZ,
                     search(hash_seed, engine, NOT_ZZ, NUL, weight))
  /\ UNCHANGED <<hash_seed, builder, calls, disk, loaded, fn, programs>>

NextMany == SearchMany \/ EndQuery

SpecMany == InitMany /\ [][NextMany]_vars

\* the result for the document at place i of the ranked list
ResultAt(i) ==
  SearchResult(found.doc_ids[i], engine.doc_urls_[found.doc_ids[i] + 1],
               engine.doc_titles_[found.doc_ids[i] + 1])

\* C13: search returns at most 100 results, the first min(total, 100)
\* documents of the ranked list, and total is the number of documents the
\* query matched, before the cut.
C13_AtMostHundred ==
  found.called =>
    /\ Len(found.results) <= 100
    /\ found.total_matches = Len(found.doc_ids)
    /\ found.results
         = [i \in 1..Min({found.total_matches, 100}) |-> ResultAt(i)]

\* a query that matched 101 documents has returned 100 of them
C13_Witness ==
  /\ found.called
  /\ found.total_matches = 101
  /\ Len(found.results) = 100

\* C14: the universe NOT uses on a loaded index is exactly the doc_ids
\* add_document was called with: no doc_id never written is in it, and
\* every document added is, whatever its url and title.
C14_Universe ==
  loaded = "true" => Range(all_document_ids(engine)) = Written

(***************************************************************************)
(* index_builder_main: build_from_jsonl on the input file, save_index,     *)
(* then the statistics.                                                    *)
(***************************************************************************)
\* how many lines the input file has at most
MaxLines == 2

Quoted(s) == <<"\"">> \o s \o <<"\"">>

\* "name":
Key(name) == Quoted(name) \o <<":">>

DOC_ID == <<"d", "o", "c", "_", "i", "d">>

URL == <<"u", "r", "l">>

TITLE == <<"t", "i", "t", "l", "e">>

TEXT == <<"t", "e", "x", "t">>

\* s followed by hyphens up to the length under which a text is skipped
Pad(s) == s \o [i \in 1..(MinTextLength - Len(s)) |-> "-"]

\* the line of a record with the four fields; id is the doc_id as written
Record(id, url, title, text) ==
  <<"{">> \o Key(DOC_ID) \o id \o <<",">> \o Key(URL) \o Quoted(url)
    \o <<",">> \o Key(TITLE) \o Quoted(title) \o <<",">> \o Key(TEXT)
    \o Quoted(text) \o <<"}">>

\* two records that are to be indexed
GoodCat == Record(<<"0">>, <<"u">>, <<"t">>, Pad(<<"c", "a", "t", " ">>))

GoodDog == Record(<<"1">>, <<"u">>, <<"t">>, Pad(<<"d", "o", "g", " ">>))

\* a line shorter than 50 bytes
ShortLine == <<"{">> \o Key(DOC_ID) \o <<"0", "}">>

\* a line that is no JSON object
NotJson == Pad(<<"x">>)

\* records without doc_id, without text, with a text of 3 bytes
NoDocId == <<"{">> \o Key(TEXT) \o Quoted(Pad(<<"c", "a", "t", " ">>)) \o <<"}">>

NoText == <<"{">> \o Key(DOC_ID) \o <<"0", ",">> \o Key(TITLE)
            \o Quoted(Pad(<<"t">>)) \o <<"}">>

ShortText == Record(<<"0">>, Pad(<<"u">>), <<"t">>, <<"c", "a", "t">>)

\* a record whose doc_id is no integer
BadDocId == Record(<<"x">>, <<"u">>, <<"t">>, Pad(<<"c", "a", "t", " ">>))

InputLines ==
  {GoodCat, GoodDog, ShortLine, NotJson, NoDocId, NoText, ShortText, BadDocId}

\* the input files: up to MaxLines lines
InputFiles == UNION {[1..n -> InputLines] : n \in 0..MaxLines}

\* "=== Index building complete! ===", the last line main prints
COMPLETE_BANNER == "=== Index building complete! ==="

\* what std::terminate prints
TERMINATE == "terminate called after throwing an instance of "

InitBuild ==
  /\ hash_seed \in HashSeeds
  /\ builder = IndexBuilder0
  /\ calls = <<>>
  /\ disk = Disk0
  /\ engine = SearchEngine0
  /\ loaded = "no"
  /\ found = NoSearch
  /\ fn = NoCall
  /\ files \in {[input |-> [present |-> TRUE, lines |-> lines],
                 index_dir |-> dir] : lines \in InputFiles, dir \in BOOLEAN}
            \cup {[input |-> [present |-> FALSE, lines |-> <<>>],
                   index_dir |-> dir] : dir \in BOOLEAN}
  /\ main = [NoMain EXCEPT !.pc = "build_from_jsonl"]
  /\ threads = [t \in Threads |-> NoThread]
  /\ cli = NoCli

\* build_from_jsonl returns res, or throws
BuildReturns(res) ==
  /\ builder' = res.b
  /\ calls' = calls \o res.calls
  /\ main' = [main EXCEPT
                !.pc = IF res.threw THEN "aborted" ELSE "save_index",
                !.cout = @ \o res.cout,
                !.cerr = @ \o res.cerr
                           \o IF res.threw THEN <<TERMINATE>> ELSE <<>>,
                !.signal = IF res.threw THEN "SIGABRT" ELSE @]

\* main, line 29: builder.build_from_jsonl(input_file)
BuildFromJsonl ==
  /\ main.pc = "build_from_jsonl"
  /\ \E ub \in UBChars :
       BuildReturns(build_from_jsonl(hash_seed, builder, files.input, ub))
  /\ UNCHANGED <<hash_seed, disk, engine, loaded, found, fn, files, threads,
                 cli>>

\* main, line 32: builder.save_index(index_dir); lines 154-158 of save_index
\* when a file cannot be opened
SaveIndexMain ==
  /\ main.pc = "save_index"
  /\ IF files.index_dir
     THEN /\ disk' = save_index(builder)
          /\ main' = [main EXCEPT !.pc = "statistics",
                                  !.cout = Append(@, "Index saved to ")]
     ELSE /\ disk' = disk
          /\ main' = [main EXCEPT !.pc = "statistics",
                                  !.cerr = Append(@, FAILED_TO_OPEN)]
  /\ UNCHANGED <<hash_seed, builder, calls, engine, loaded, found, fn,
                 files, threads, cli>>

\* main, lines 33-67: the Zipf file, the statistics, the last line, return 0
Statistics ==
  /\ main.pc = "statistics"
  /\ main' = [main EXCEPT !.pc = "returned",
                          !.cout = @ \o <<"=== Statistics ===",
                                          COMPLETE_BANNER>>,
                          !.exit_status = 0]
  /\ UNCHANGED <<hash_seed, builder, calls, disk, engine, loaded, found, fn,
                 files, threads, cli>>

NextBuild == BuildFromJsonl \/ SaveIndexMain \/ Statistics

SpecBuild == InitBuild /\ [][NextBuild]_vars

\* index_builder_main has ended
Ended == main.pc \in {"returned", "aborted"}

\* an open has failed: of the input file, or, save_index having been called,
\* of the index files
OpenFailed ==
  \/ ~files.input.present
  \/ main.pc = "returned" /\ ~files.index_dir

\* C15: when the input file cannot be opened, or the index files cannot be
\* opened for writing, index_builder_main prints a diagnostic on the error
\* stream, ends with a non-zero exit status, and does not report a
\* completed build.
C15_FatalOpenFailure ==
  Ended /\ OpenFailed =>
    /\ main.cerr # <<>>
    /\ main.exit_status # 0
    /\ COMPLETE_BANNER \notin Range(main.cout)

\* the add_document call a line is to lead to: none for a line that is to be
\* skipped
DueCall(line) ==
  IF line = GoodCat
  THEN <<[doc_id |-> 0, url |-> <<"u">>, title |-> <<"t">>,
          text |-> Pad(<<"c", "a", "t", " ">>)]>>
  ELSE IF line = GoodDog
  THEN <<[doc_id |-> 1, url |-> <<"u">>, title |-> <<"t">>,
          text |-> Pad(<<"d", "o", "g", " ">>)]>>
  ELSE <<>>

RECURSIVE DueCalls(_)
DueCalls(lines) ==
  IF lines = <<>> THEN <<>>
  ELSE DueCall(Head(lines)) \o DueCalls(Tail(lines))

\* the builder after the calls cs alone
RECURSIVE Fed(_, _)
Fed(b, cs) ==
  IF cs = <<>> THEN b
  ELSE Fed(add_document(hash_seed, b, Head(cs).doc_id, Head(cs).url,
                        Head(cs).title, Head(cs).text, NUL), Tail(cs))

\* C17: build_from_jsonl skips every line that is malformed, has no doc_id
\* or no text, has a doc_id that is no integer or a text under 50 bytes: it
\* ends without an exception, and the index and the document arrays are
\* those the other lines alone give.
C17_SoftSkip ==
  main.pc # "build_from_jsonl" /\ files.input.present =>
    /\ main.pc # "aborted"
    /\ calls = DueCalls(files.input.lines)
    /\ LET due == Fed(IndexBuilder0, DueCalls(files.input.lines)) IN
         /\ builder.inverted_index_ = due.inverted_index_
         /\ builder.doc_urls_ = due.doc_urls_
         /\ builder.doc_titles_ = due.doc_titles_
         /\ builder.doc_lengths_ = due.doc_lengths_

(***************************************************************************)
(* Index files that are missing when the query program starts              *)
(***************************************************************************)
\* a file of the saved index is removed before load_index opens it
RemoveFile ==
  /\ loaded = "no"
  /\ \E f \in disk.present : disk' = [disk EXCEPT !.present = @ \ {f}]
  /\ UNCHANGED <<hash_seed, builder, calls, engine, loaded, found, fn,
                 programs>>

NextMissing ==
  \/ AddDocument(QueryUrls, Titles, Texts)
  \/ SaveIndex
  \/ RemoveFile
  \/ LoadIndex

SpecMissing == Init /\ [][NextMissing]_vars

\* the files load_index cannot do without
Needed == {"vocabulary.txt", "index.bin", "documents.txt"}

\* C16: load_index returns false and leaves the engine's index and document
\* arrays empty when vocabulary.txt, index.bin or documents.txt cannot be
\* opened; when only doc_lengths.txt is missing it returns true and every
\* document length is 0.
C16_MissingFiles ==
  loaded # "no" =>
    /\ ~(Needed \subseteq disk.present) =>
         /\ loaded = "false"
         /\ engine.inverted_index_ = HashMap0
         /\ engine.doc_urls_ = <<>>
         /\ engine.doc_titles_ = <<>>
         /\ engine.doc_lengths_ = <<>>
    /\ disk.present = Needed =>
         /\ loaded = "true"
         /\ \A i \in 1..Len(engine.doc_lengths_) : engine.doc_lengths_[i] = 0

\* an index of two documents with tokens was loaded without doc_lengths.txt
C16_Witness ==
  /\ loaded = "true"
  /\ disk.present = Needed
  /\ builder.doc_lengths_ = <<2, 2>>
  /\ engine.doc_lengths_ = <<0, 0>>

(***************************************************************************)
(* Threads that call search on one loaded engine.  A thread's steps are    *)
(* the parts of search between which another thread can run: the shared    *)
(* variables are the engine's, and a step reads or writes them as the code *)
(* of that part does.                                                      *)
(***************************************************************************)
\* the queries of the threads
ThreadQueries ==
  { <<"c", "a", "t">>, <<"d", "o", "g">>,
    <<"c", "a", "t", " ", "O", "R", " ", "d", "o", "g">> }

\* search, lines 424-453: the query's tokens and their RPN
ThreadBegins(t, query, query_tokens) ==
  threads' =
    [threads EXCEPT
       ![t] = IF query_tokens = <<>>
              THEN [NoThread EXCEPT !.pc = "returned", !.query = query]
              ELSE [NoThread EXCEPT !.pc = "eval_rpn", !.query = query,
                                    !.query_tokens = query_tokens,
                                    !.rpn = to_rpn(query_tokens),
                                    !.i = 1]]

ThreadSearch(t) ==
  /\ loaded = "true"
  /\ threads[t].pc = "none"
  /\ \E query \in ThreadQueries :
       ThreadBegins(t, query, query_tokens_of(query))
  /\ UNCHANGED <<hash_seed, builder, calls, disk, engine, loaded, found, fn,
                 files, main, cli>>

\* eval_rpn, lines 317-347: an operator, on the thread's own stack
ThreadOperator(t) ==
  /\ threads[t].pc = "eval_rpn"
  /\ threads[t].i <= Len(threads[t].rpn)
  /\ is_operator_token(threads[t].rpn[threads[t].i])
  /\ threads' =
       [threads EXCEPT
          ![t].stack =
             (IF threads[t].rpn[threads[t].i] = NOT
              THEN eval_not(engine, [stack |-> @, bad |-> FALSE])
              ELSE eval_binary([stack |-> @, bad |-> FALSE],
                               threads[t].rpn[threads[t].i])).stack,
          ![t].i = @ + 1]
  /\ UNCHANGED <<hash_seed, builder, calls, disk, engine, loaded, found, fn,
                 files, main, cli>>

\* eval_rpn, line 312, and stem, lines 225-226: stemmer_.word_ and
\* stemmer_.k_ are assigned
ThreadStemAssigns(t) ==
  /\ threads[t].pc = "eval_rpn"
  /\ threads[t].i <= Len(threads[t].rpn)
  /\ ~is_operator_token(threads[t].rpn[threads[t].i])
  /\ engine' = [engine EXCEPT
                  !.stemmer_ = stem_begin(@, threads[t].rpn[threads[t].i])]
  /\ threads' = [threads EXCEPT ![t].pc = "stem"]
  /\ UNCHANGED <<hash_seed, builder, calls, disk, loaded, found, fn, files,
                 main, cli>>

\* stem has returned res; eval_rpn, line 313
ThreadStemReturns(t, res) ==
  /\ engine' = [engine EXCEPT !.stemmer_ = res.st]
  /\ threads' =
       [threads EXCEPT
          ![t].stack = Append(@, posting_doc_ids(hash_seed, engine, res.out)),
          ![t].i = @ + 1,
          ![t].pc = "eval_rpn"]

\* stem, lines 228-237, on stemmer_ as it is now
ThreadStemSteps(t) ==
  /\ threads[t].pc = "stem"
  /\ \E ub \in UBChars : ThreadStemReturns(t, stem_steps(engine.stemmer_, ub))
  /\ UNCHANGED <<hash_seed, builder, calls, disk, loaded, found, fn, files,
                 main, cli>>

\* search has returned res
ThreadReturns(t, res) ==
  /\ engine' = res.e
  /\ threads' = [threads EXCEPT ![t].pc = "returned",
                                ![t].results = res.results,
                                ![t].total_matches = res.total_matches]

\* search, lines 459-490, m being the matching documents
ThreadRanks(t, m) ==
  \E weight \in [Scored(engine, m.docs) -> Scores] :
    ThreadReturns(t, search_rank(engine, m, weight))

\* eval_rpn, lines 350-353, and search, lines 455-490
ThreadRank(t) ==
  /\ threads[t].pc = "eval_rpn"
  /\ threads[t].i > Len(threads[t].rpn)
  /\ \E ub \in UBChars :
       ThreadRanks(t, match_rpn(eval_return([stack |-> threads[t].stack,
                                             stemmer |-> engine.stemmer_,
                                             bad |-> FALSE]),
                                FALSE, threads[t].query_tokens, ub))
  /\ UNCHANGED <<hash_seed, builder, calls, disk, loaded, found, fn, files,
                 main, cli>>

NextConcurrent ==
  \/ AddDocument(QueryUrls, Titles, QueryTexts)
  \/ SaveIndex
  \/ LoadIndex
  \/ \E t \in Threads :
       \/ ThreadSearch(t)
       \/ ThreadOperator(t)
       \/ ThreadStemAssigns(t)
       \/ ThreadStemSteps(t)
       \/ ThreadRank(t)

SpecConcurrent == Init /\ [][NextConcurrent]_vars

\* the engine as load_index left it
Loaded == load_index(hash_seed, SearchEngine0, disk, 0).e

\* what the search of query returns when no other search runs
Alone(query) ==
  search(hash_seed, Loaded, query, NUL, [d \in DocIds |-> 0])

\* the doc_ids of the results
Ids(results) == { results[i].doc_id : i \in 1..Len(results) }

\* C18: searches of several threads on one loaded engine need no lock: a
\* search writes none of the engine's variables, and each search returns
\* the documents it returns when it runs alone
C18_ConcurrentSearch ==
  loaded = "true" =>
    /\ engine = Loaded
    /\ \A t \in Threads :
         threads[t].pc = "returned" =>
           /\ Ids(threads[t].results) = Ids(Alone(threads[t].query).results)
           /\ threads[t].total_matches =
                Alone(threads[t].query).total_matches

(***************************************************************************)
(* The query program's loop: a line of standard input, the search, the     *)
(* lines it prints.  The engine has loaded an index of n documents.        *)
(***************************************************************************)
\* the most result lines the loop prints
DisplayLimit == 100

\* the elapsed time as printed (the clock is not modelled)
Elapsed == <<"0", ".", "1">>

\* "Found " << total << " documents" << " (" << ms << " ms):\n"
found_line(total) ==
  <<"F", "o", "u", "n", "d", " ">> \o IntToStr(total)
    \o <<" ", "d", "o", "c", "u", "m", "e", "n", "t", "s">>
    \o <<" ", "(">> \o Elapsed \o <<" ", "m", "s", ")", ":">>

\* doc_id << "\t" << url << "\t" << title << "\n"
result_line(result) ==
  IntToStr(result.doc_id) \o <<"\t">> \o result.url \o <<"\t">>
    \o result.title

\* "... and " << k << " more results\n"
more_line(k) ==
  <<".", ".", ".", " ", "a", "n", "d", " ">> \o IntToStr(k)
    \o <<" ", "m", "o", "r", "e", " ", "r", "e", "s", "u", "l", "t", "s">>

\* lines 124-135, display_limit being computed
print_results(results, display_limit) ==
  [i \in 1..display_limit |-> result_line(results[i])]
    \o (IF Len(results) > display_limit
        THEN <<more_line(Len(results) - display_limit)>>
        ELSE <<>>)
    \o << <<>> >>

\* lines 120-135: the lines printed for a query
query_output(results, total) ==
  <<found_line(total)>>
    \o print_results(results,
                     IF Len(results) < DisplayLimit THEN Len(results)
                     ELSE DisplayLimit)

\* the lines the query program reads
CliLines == { <<>>, NOT_ZZ, <<"z", "z">> }

\* lines 114-135, search having returned res
QueryPrints(query, res) ==
  /\ SearchReturns(query, res)
  /\ cli' = [read |-> cli.read + 1, query |-> query,
             cout |-> cli.cout \o query_output(res.results,
                                               res.total_matches),
             mark |-> Len(cli.cout)]

\* lines 110-112: an empty line is skipped
EmptyLine ==
  /\ cli' = [cli EXCEPT !.read = @ + 1, !.query = <<>>,
                        !.mark = Len(cli.cout)]
  /\ UNCHANGED <<engine, found>>

\* one iteration of the loop (lines 109-136)
QueryLine ==
  /\ loaded = "true"
  /\ cli.read < MaxQueries
  /\ \E query \in CliLines :
       IF query = <<>> THEN EmptyLine
       ELSE \E weight \in Weights :
              QueryPrints(query,
                          search(hash_seed, engine, query, NUL, weight))
  /\ UNCHANGED <<hash_seed, builder, calls, disk, loaded, fn, files, main,
                 threads>>

NextCli == QueryLine

SpecCli == InitMany /\ [][NextCli]_vars

\* the lines printed for the last line read, without the empty line that
\* ends them
Printed == SubSeq(cli.cout, cli.mark + 1, Len(cli.cout) - 1)

\* the lines of lines that are result lines of the results
ResultLines(lines) ==
  { i \in 1..Len(lines) :
      \E result \in Range(found.results) : lines[i] = result_line(result) }

\* the last of lines says that some k results more were found
EndsWithMore(lines) ==
  /\ lines # <<>>
  /\ \E k \in 1..MaxMatches : lines[Len(lines)] = more_line(k)

\* C19: for a non-empty query line the query program prints "Found N
\* documents" with N the number of matching documents, then at most 100
\* result lines, and, when N is more than the number of result lines, a
\* last line "... and K more results"
C19_QueryOutput ==
  (cli.read > 0 /\ cli.query # <<>>) =>
    /\ Printed # <<>>
    /\ Printed[1] = found_line(Len(found.doc_ids))
    /\ Cardinality(ResultLines(Printed)) <= 100
    /\ Len(found.doc_ids) > Cardinality(ResultLines(Printed))
         => EndsWithMore(Printed)

(***************************************************************************)
(* PorterStemmer::stem on its own: words are stemmed one after the other   *)
(* by one PorterStemmer object.                                            *)
(***************************************************************************)
\* how many words the object stems
MaxStemCalls == 2

\* the longest of the words enumerated letter by letter
MaxWord == 3

StemChars == {"e", "i", "s", "d"}

RUNNING == <<"r", "u", "n", "n", "i", "n", "g">>

PONIES == <<"p", "o", "n", "i", "e", "s">>

NATIONAL == <<"n", "a", "t", "i", "o", "n", "a", "l">>

GENERALIZATION ==
  <<"g", "e", "n", "e", "r", "a", "l", "i", "z", "a", "t", "i", "o", "n">>

EFFECTIVE == <<"e", "f", "f", "e", "c", "t", "i", "v", "e">>

\* the words of test_stemmer.cpp and every word of at most MaxWord letters
StemWords ==
  {RUNNING, PONIES, NATIONAL, GENERALIZATION, EFFECTIVE}
    \cup UNION {[1..n -> StemChars] : n \in 0..MaxWord}

InitStem ==
  /\ Idle
  /\ fn = [op |-> "stemmer", stemmer |-> PorterStemmer0, n |-> 0,
           word |-> <<>>, out |-> <<>>]

StemReturns(word, res) ==
  fn' = [op |-> "stem", stemmer |-> res.st, n |-> fn.n + 1, word |-> word,
         out |-> res.out]

\* stemmer.stem(word)
Stem ==
  /\ fn.op \in {"stemmer", "stem"}
  /\ fn.n < MaxStemCalls
  /\ \E word \in StemWords, ub \in UBChars :
       StemReturns(word, stem_run(fn.stemmer, word, ub))
  /\ UNCHANGED Rest

NextStem == Stem

SpecStem == InitStem /\ [][NextStem]_vars

\* stem has returned stemmed for word, if word is the word stemmed
Stems(word, stemmed) ==
  fn.word = word => fn.out = stemmed

\* C20: stem gives the stems of Porter's algorithm for the five words of the
\* tests: running -> run, ponies -> poni, national -> nation,
\* generalization -> gener, effective -> effect; and it returns a word of
\* at most two letters as it is
C20_CanonicalStems ==
  fn.op = "stem" =>
    /\ Stems(RUNNING, <<"r", "u", "n">>)
    /\ Stems(PONIES, <<"p", "o", "n", "i">>)
    /\ Stems(NATIONAL, <<"n", "a", "t", "i", "o", "n">>)
    /\ Stems(GENERALIZATION, <<"g", "e", "n", "e", "r">>)
    /\ Stems(EFFECTIVE, <<"e", "f", "f", "e", "c", "t">>)
    /\ (Len(fn.word) <= 2 => fn.out = fn.word)

\* an object that has stemmed a word before has stemmed generalization
C20_Witness ==
  /\ fn.op = "stem"
  /\ fn.n = 2
  /\ fn.word = GENERALIZATION
  /\ fn.out = <<"g", "e", "n", "e", "r">>

(***************************************************************************)
(* The tokenizer alone (tokenizer.cpp, test_tokenizer.cpp)                 *)
(***************************************************************************)
\* the longest enumerated text
MaxText == 5

\* letters that spell the stop words a and an; a letter of no stop word; an
\* upper-case letter; the apostrophe; a separator
TokenizerChars == {"a", "n", "x", "N", "'", " "}

\* the sentence of TokenizerTest's fixture
TheQuick ==
  <<"T", "h", "e", " ", "q", "u", "i", "c", "k", " ", "b", "r", "o", "w", "n", " ", "f", "o", "x", " ", "j", "u", "m", "p", "s", " ", "o", "v", "e", "r", " ", "t", "h", "e", " ", "l", "a", "z", "y", " ", "d", "o", "g">>

TokenizerTexts ==
  {TheQuick} \cup UNION {[1..n -> TokenizerChars] : n \in 0..MaxText}

InitTokenize ==
  /\ Idle
  /\ fn \in {[op |-> "text", text |-> text, tokens |-> <<>>] :
              text \in TokenizerTexts}

\* tokenizer.tokenize(text)
Tokenize ==
  /\ fn.op = "text"
  /\ fn' = [fn EXCEPT !.op = "tokenize", !.tokens = tokenize(fn.text)]
  /\ UNCHANGED Rest

NextTokenize == Tokenize

SpecTokenize == InitTokenize /\ [][NextTokenize]_vars

\* position i of text is inside a run: letters and apostrophes back to a
\* letter
InRun(text, i) ==
  \E j \in 1..i :
    /\ text[j] \in Lower \cup Upper
    /\ \A m \in j..i : text[m] \in Lower \cup Upper \cup {"'"}

\* where the maximal runs of text begin
RunStarts(text) ==
  {a \in 1..Len(text) : InRun(text, a) /\ (a = 1 \/ ~InRun(text, a - 1))}

\* the maximal run that begins at a
RunAt(text, a) ==
  LET b == CHOOSE e \in a..Len(text) :
             /\ \A m \in a..e : InRun(text, m)
             /\ e = Len(text) \/ ~InRun(text, e + 1)
  IN SubSeq(text, a, b)

\* a run that is to be emitted: two characters or more, and no stop word
\* once lower-cased
Qualifies(run) == Len(run) >= 2 /\ to_lower(run) \notin stop_words_

\* the lower-cased qualifying maximal runs of text, in the order of text
RunTokens(text) ==
  LET starts == {a \in RunStarts(text) : Qualifies(RunAt(text, a))}
      nth(n) == CHOOSE a \in starts :
                  Cardinality({b \in starts : b <= a}) = n
  IN [n \in 1..Cardinality(starts) |-> to_lower(RunAt(text, nth(n)))]

\* C21: tokenize emits, in the order of the input, exactly the lower-cased
\* maximal runs of letters (apostrophes allowed after the first letter) that
\* have two characters or more and are no stop words: no emitted token is a
\* stop word, is shorter than 2 or holds an upper-case letter, and no
\* qualifying run is dropped
C21_TokenizeRuns ==
  fn.op = "tokenize" =>
    /\ fn.tokens = RunTokens(fn.text)
    /\ \A n \in 1..Len(fn.tokens) :
         /\ fn.tokens[n] \notin stop_words_
         /\ Len(fn.tokens[n]) >= 2
         /\ \A m \in 1..Len(fn.tokens[n]) : fn.tokens[n][m] \notin Upper

\* a text with a stop word partly in upper case and a content run with an
\* apostrophe: only the content run is emitted, lower-cased
C21_Witness ==
  /\ fn.op = "tokenize"
  /\ fn.text = <<"a", "N", " ", "N", "'">>
  /\ fn.tokens = << <<"n", "'">> >>

(***************************************************************************)
(* The keys of the inverted index (index_builder.cpp 8-63)                 *)
(***************************************************************************)
\* document texts with words whose stems are stop words (doing -> do,
\* having -> have, being is a stop word itself), stop words, a one-letter
\* word and words with apostrophes
TermTexts ==
  { <<"d", "o", "i", "n", "g", " ", "t", "h", "e">>,
    <<"H", "a", "v", "i", "n", "g", " ", "a", " ", "c", "a", "t">>,
    <<"b", "e", " ", "b", "e", "i", "n", "g">>,
    <<"d", "o", "n", "'", "t", " ", "'", "d", "o">>,
    <<"x", " ", "i", "t", "'", "s">>,
    <<"c", "a", "t", "s">> }

InitTerms == Init

AddTermText == AddDocument({<<"u">>}, Titles, TermTexts)

NextTerms == AddTermText

SpecTerms == InitTerms /\ [][NextTerms]_vars

\* the Porter stems of the stop words
StopStems == {stem(w) : w \in stop_words_}

\* the stems of the words of the added texts that are no stop words
WordStems ==
  UNION {{stem(t) : t \in Range(RunTokens(calls[n].text))} :
           n \in 1..Len(calls)}

\* C22: no key of the inverted index is the empty string, and every key is
\* the Porter stem of a word of an added text that has two letters or more
\* and is no stop word (such a stem can be a stop word or a stop word's
\* stem: doing is indexed under do, having under have)
C22_KeysAreWordStems ==
  /\ <<>> \notin Keys(builder.inverted_index_)
  /\ Keys(builder.inverted_index_) \subseteq WordStems

\* C22 as stated: no key of the inverted index is empty or is the stem of a
\* stop word
C22_NoStopWordStem ==
  \A key \in Keys(builder.inverted_index_) :
    key # <<>> /\ key \notin StopStems

\* doing, next to the stop word the, has been indexed under do
C22_Witness ==
  /\ \E n \in 1..Len(calls) :
       calls[n].text = <<"d", "o", "i", "n", "g", " ", "t", "h", "e">>
  /\ <<"d", "o">> \in Keys(builder.inverted_index_)
  /\ <<"t", "h", "e">> \notin Keys(builder.inverted_index_)

(***************************************************************************)
(* HashMap<std::string, int> alone (data_structures.h, the HashMap tests)  *)
(***************************************************************************)
\* how many calls are made on the map
MaxMapOps == 4

\* eleven keys that std::hash sends to consecutive slots of the 16
FilledKeys ==
  << <<"a">>, <<"b">>, <<"c">>, <<"d">>, <<"e">>, <<"f">>, <<"g">>, <<"h">>,
     <<"i">>, <<"j">>, <<"k">> >>

\* keys of the calls: one of FilledKeys, two that fall on the slots of
\* FilledKeys (q on a's, r on b's) and a key of the tests
MapKeys ==
  { <<"a">>, <<"q">>, <<"r">>, <<"o", "n", "e">> }

MapValues == {1, 2}

AllMapKeys == MapKeys \cup Range(FilledKeys)

\* a map after insert(keys[1], 1), insert(keys[2], 1), ...
RECURSIVE Inserted(_, _, _)
Inserted(seed, m, keys) ==
  IF keys = <<>> THEN m
  ELSE Inserted(seed, insert(seed, m, Head(keys), 1), Tail(keys))

\* the abstract map: the value of each key, 0 for a key that is absent
NoKeys == [k \in AllMapKeys |-> 0]

\* a fresh map, or one that holds FilledKeys (one key under the load factor
\* at which insert grows the table)
InitMap ==
  /\ hash_seed \in HashSeeds
  /\ builder = IndexBuilder0
  /\ calls = <<>>
  /\ disk = Disk0
  /\ engine = SearchEngine0
  /\ loaded = "no"
  /\ found = NoSearch
  /\ NoPrograms
  /\ fn \in { [op |-> "map", n |-> 0, key |-> <<>>, prev |-> HashMap0,
                map |-> HashMap0, abs |-> NoKeys],
               [op |-> "map", n |-> 0, key |-> <<>>, prev |-> HashMap0,
                map |-> Inserted(hash_seed, HashMap0, FilledKeys),
                abs |-> [k \in AllMapKeys |->
                           IF k \in Range(FilledKeys) THEN 1 ELSE 0]] }

\* map.insert(key, value)
MapInsert ==
  /\ fn.op \in {"map", "insert", "remove"}
  /\ fn.n < MaxMapOps
  /\ \E key \in MapKeys, value \in MapValues :
       fn' = [op |-> "insert", n |-> fn.n + 1, key |-> key, prev |-> fn.map,
              map |-> insert(hash_seed, fn.map, key, value),
              abs |-> [fn.abs EXCEPT ![key] = value]]
  /\ UNCHANGED Rest

NextInserts == MapInsert

SpecInserts == InitMap /\ [][NextInserts]_vars

\* what map.find(k, v) returns on the map of fn, v being 0 before the call
Found(k) == find(hash_seed, fn.map, k, 0)

\* C23: under insert calls alone the HashMap is a map: find gives the value
\* inserted last for a key that was inserted and false for any other key,
\* size() is the number of distinct keys, and an insert of a present key
\* leaves size() as it was
C23_InsertsAreAMap ==
  fn.op \in {"map", "insert"} =>
    /\ \A k \in AllMapKeys :
         IF fn.abs[k] # 0
         THEN Found(k) = [found |-> TRUE, value |-> fn.abs[k]]
         ELSE ~Found(k).found
    /\ fn.map.size = Cardinality({k \in AllMapKeys : fn.abs[k] # 0})
    /\ (fn.op = "insert" /\ find(hash_seed, fn.prev, fn.key, 0).found
          => fn.map.size = fn.prev.size)

\* the table has grown from 16 to 32 slots, and a key that was present in
\* the full cluster has been given a new value
C23_Witness ==
  /\ fn.op = "insert"
  /\ fn.prev.capacity = 32
  /\ fn.map.size = 12
  /\ fn.key = <<"a">>
  /\ Found(<<"a">>) = [found |-> TRUE, value |-> 2]
  /\ Found(<<"q">>).found

\* map.remove(key)
MapRemove ==
  /\ fn.op \in {"map", "insert", "remove"}
  /\ fn.n < MaxMapOps
  /\ \E key \in MapKeys :
       fn' = [op |-> "remove", n |-> fn.n + 1, key |-> key, prev |-> fn.map,
              map |-> remove(hash_seed, fn.map, key),
              abs |-> [fn.abs EXCEPT ![key] = 0]]
  /\ UNCHANGED Rest

NextMap == MapInsert \/ MapRemove

SpecMap == InitMap /\ [][NextMap]_vars

\* C24: under insert and remove calls, right after remove(k) of a present
\* key find(k) is false and size() is one less than before, and a key that
\* was removed (or never inserted) is absent from find and from the
\* iteration until it is inserted again
C24_RemovedStaysAbsent ==
  /\ (fn.op = "remove" /\ find(hash_seed, fn.prev, fn.key, 0).found)
       => /\ ~Found(fn.key).found
          /\ fn.map.size = fn.prev.size - 1
  /\ \A k \in AllMapKeys :
       fn.abs[k] = 0 => ~Found(k).found /\ k \notin Keys(fn.map)

(***************************************************************************)
(* DynamicArray<int> alone (data_structures.h, the DynamicArray tests).    *)
(* An array is [data, size, capacity]: data_[i] is data[i + 1], and a slot *)
(* of new T[n] that was never written holds Unwritten.                     *)
(***************************************************************************)
Unwritten == "?"

\* DynamicArray(): data_ is nullptr, no slot
DynamicArray0 == [data |-> <<>>, size |-> 0, capacity |-> 0]

\* DynamicArray(initial_capacity)
DynamicArrayNew(initial_capacity) ==
  [data |-> [i \in 1..initial_capacity |-> Unwritten], size |-> 0,
   capacity |-> initial_capacity]

\* resize: the first size_ elements copied to a new T[new_capacity]
resize(a, new_capacity) ==
  [a EXCEPT !.data = [i \in 1..new_capacity |->
                        IF i <= a.size THEN a.data[i] ELSE Unwritten],
            !.capacity = new_capacity]

\* data_[size_++] = value
store_back(a, value) ==
  [a EXCEPT !.data[a.size + 1] = value, !.size = a.size + 1]

push_back(a, value) ==
  store_back(IF a.size = a.capacity
             THEN resize(a, IF a.capacity = 0 THEN 8 ELSE a.capacity * 2)
             ELSE a,
             value)

\* pop_back without the test size_ > 0
pop_back_unchecked(a) == [a EXCEPT !.size = a.size - 1]

pop_back(a) == IF a.size > 0 THEN [a EXCEPT !.size = a.size - 1] ELSE a

clear(a) == [a EXCEPT !.size = 0]

empty(a) == a.size = 0

\* how many calls are made on the array
MaxArrayOps == 4

ArrayValues == {10, 20}

\* an array after push_back(values[1]), push_back(values[2]), ...
RECURSIVE Pushed(_, _)
Pushed(a, values) ==
  IF values = <<>> THEN a
  ELSE Pushed(push_back(a, Head(values)), Tail(values))

\* eight values: what fills the first allocation of a DynamicArray()
EightValues == <<10, 20, 30, 40, 50, 60, 70, 80>>

\* a new array, a new array of capacity 1, or one filled to its capacity
InitArray ==
  /\ Idle
  /\ fn \in { [op |-> "array", n |-> 0, prev |-> DynamicArray0,
                arr |-> DynamicArray0, abs |-> <<>>],
               [op |-> "array", n |-> 0, prev |-> DynamicArrayNew(1),
                arr |-> DynamicArrayNew(1), abs |-> <<>>],
               [op |-> "array", n |-> 0, prev |-> DynamicArray0,
                arr |-> Pushed(DynamicArray0, EightValues),
                abs |-> EightValues] }

ArrayReturns(op, arr, abs) ==
  fn' = [op |-> op, n |-> fn.n + 1, prev |-> fn.arr, arr |-> arr,
         abs |-> abs]

\* arr.push_back(value)
ArrayPushBack ==
  /\ fn.op \in {"array", "push_back", "pop_back", "clear"}
  /\ fn.n < MaxArrayOps
  /\ \E value \in ArrayValues :
       ArrayReturns("push_back", push_back(fn.arr, value),
                    Append(fn.abs, value))
  /\ UNCHANGED Rest

\* arr.pop_back()
ArrayPopBack ==
  /\ fn.op \in {"array", "push_back", "pop_back", "clear"}
  /\ fn.n < MaxArrayOps
  /\ ArrayReturns("pop_back", pop_back(fn.arr),
                  SubSeq(fn.abs, 1, Len(fn.abs) - 1))
  /\ UNCHANGED Rest

\* arr.clear()
ArrayClear ==
  /\ fn.op \in {"array", "push_back", "pop_back", "clear"}
  /\ fn.n < MaxArrayOps
  /\ ArrayReturns("clear", clear(fn.arr), <<>>)
  /\ UNCHANGED Rest

NextArray == ArrayPushBack \/ ArrayPopBack \/ ArrayClear

SpecArray == InitArray /\ [][NextArray]_vars

\* C25: under push_back, pop_back and clear the DynamicArray is the
\* sequence these describe: size() is its length, element i its i-th value
\* (also after the capacity has grown), pop_back on an empty array changes
\* nothing, clear leaves it empty, and empty() holds iff size() is 0
C25_ArrayIsASequence ==
  fn.op \in {"array", "push_back", "pop_back", "clear"} =>
    /\ fn.arr.size = Len(fn.abs)
    /\ fn.arr.size <= fn.arr.capacity
    /\ \A i \in 0..(fn.arr.size - 1) : fn.arr.data[i + 1] = fn.abs[i + 1]
    /\ (fn.op = "pop_back" /\ fn.prev.size = 0 => fn.arr = fn.prev)
    /\ (fn.op = "pop_back" /\ fn.prev.size > 0
          => fn.arr.size = fn.prev.size - 1)
    /\ (fn.op = "clear" => empty(fn.arr))
    /\ (empty(fn.arr) <=> fn.arr.size = 0)
    /\ (empty(fn.arr) <=> fn.abs = <<>>)

\* the ninth push_back has doubled the capacity and kept the eight values,
\* and a value pushed after a pop_back is the tenth element
C25_Witness ==
  /\ fn.op = "push_back"
  /\ fn.arr.capacity = 16
  /\ fn.arr.size = 10
  /\ fn.n = 4
  /\ SubSeq(fn.arr.data, 1, 8) = EightValues
  /\ fn.arr.data[10] = 20

(***************************************************************************)
(* eval_rpn, one token of its loop at a time (search_engine.cpp 306-354)   *)
(***************************************************************************)
\* the longest query token sequence given to to_rpn here
MaxRpn == 4

EvalTokens == {CAT, DOG, AND, OR, NOT, LPAREN, RPAREN}

\* what to_rpn hands to eval_rpn for the token sequences of a query
EvalInputs ==
  {to_rpn(tokens) : tokens \in UNION {[1..n -> EvalTokens] : n \in 1..MaxRpn}}

\* an engine with three documents: cat in 0 and 1, dog in 1 and 2
EvalEngine ==
  [SearchEngine0 EXCEPT
     !.doc_urls_ = [i \in 1..3 |-> <<"u">>],
     !.doc_titles_ = [i \in 1..3 |-> <<"t">>],
     !.doc_lengths_ = [i \in 1..3 |-> 1],
     !.inverted_index_ =
        insert(0, insert(0, HashMap0, CAT,
                         <<SearchPosting(0, 1), SearchPosting(1, 1)>>),
               DOG, <<SearchPosting(1, 1), SearchPosting(2, 1)>>)]

InitEval ==
  /\ hash_seed = 0
  /\ builder = IndexBuilder0
  /\ calls = <<>>
  /\ disk = Disk0
  /\ engine = EvalEngine
  /\ loaded = "true"
  /\ found = NoSearch
  /\ NoPrograms
  /\ fn \in {[op |-> "eval_rpn", rpn_tokens |-> rpn_tokens, i |-> 0,
              tok |-> <<>>, prev |-> <<>>,
              v |-> [stack |-> <<>>, stemmer |-> EvalEngine.stemmer_,
                     bad |-> FALSE],
              docs |-> <<>>] : rpn_tokens \in EvalInputs}

\* one turn of the loop over rpn_tokens
EvalToken ==
  /\ fn.op \in {"eval_rpn", "token"}
  /\ fn.i < Len(fn.rpn_tokens)
  /\ \E ub \in UBChars :
       fn' = [fn EXCEPT !.op = "token", !.i = fn.i + 1,
                        !.tok = fn.rpn_tokens[fn.i + 1],
                        !.prev = fn.v.stack,
                        !.v = eval_token(hash_seed, engine, fn.v,
                                         fn.rpn_tokens[fn.i + 1], ub)]
  /\ UNCHANGED Rest

\* the return after the loop
EvalReturn ==
  /\ fn.op \in {"eval_rpn", "token"}
  /\ fn.i = Len(fn.rpn_tokens)
  /\ fn' = [fn EXCEPT !.op = "return", !.docs = eval_return(fn.v).docs]
  /\ UNCHANGED Rest

NextEval == EvalToken \/ EvalReturn

SpecEval == InitEval /\ [][NextEval]_vars

\* C26: in eval_rpn an `and` or `or` met with fewer than two lists on the
\* stack leaves the stack as it was and the loop goes on with the next
\* token; eval_rpn returns the list on top of the stack, the empty list
\* when the stack is empty
C26_UnderflowIsSkipped ==
  /\ (fn.op = "token" /\ fn.tok \in {AND, OR} /\ Len(fn.prev) < 2)
       => fn.v.stack = fn.prev /\ ~fn.v.bad
  /\ fn.op = "return" =>
       /\ fn.i = Len(fn.rpn_tokens)
       /\ fn.docs = IF fn.v.stack = <<>> THEN <<>>
                    ELSE fn.v.stack[Len(fn.v.stack)]

\* eval_rpn has returned cat's documents after `and` was skipped on a
\* stack of one list (the query cat AND)
C26_Witness ==
  /\ fn.op = "return"
  /\ fn.rpn_tokens = <<CAT, AND>>
  /\ fn.tok = AND
  /\ fn.prev = << <<0, 1>> >>
  /\ fn.docs = <<0, 1>>

(***************************************************************************)
(* The order of vocabulary.txt (index_builder.cpp 160-175)                 *)
(***************************************************************************)
VocabLines == SplitLines(disk.vocabulary, 1, <<>>)

\* the first and the second field of a line of vocabulary.txt
VocabId(line) == ExtractInt(IStream(line), -1).val

VocabTerm(line) ==
  ExtractWord(ExtractInt(IStream(line), -1).is, <<>>).val

\* the terms of vocabulary.txt, in the order of the file
VocabTerms == [n \in 1..Len(VocabLines) |-> VocabTerm(VocabLines[n])]

\* the term_ids of vocabulary.txt are 0, 1, ..., V - 1 in the order of the
\* file
DenseTermIds ==
  \A n \in 1..Len(VocabLines) : VocabId(VocabLines[n]) = n - 1

\* the slot of the builder's table that holds key
SlotOf(key) ==
  CHOOSE i \in 1..builder.inverted_index_.capacity :
    LET e == builder.inverted_index_.table[i] IN
    e.occupied /\ ~e.deleted /\ e.key = key

\* acc and then the keys of ents that are not in it, in the order of ents
RECURSIVE AppendNew(_, _)
AppendNew(acc, ents) ==
  IF ents = <<>> THEN acc
  ELSE AppendNew(IF Head(ents).key \in Range(acc) THEN acc
                 ELSE Append(acc, Head(ents).key),
                 Tail(ents))

\* the terms in the order in which the add_document calls cs have inserted
\* them for the first time into inverted_index_ (a call inserts its terms
\* in the order of the iteration over term_freqs, lines 50-62)
RECURSIVE FirstInserted(_, _)
FirstInserted(cs, acc) ==
  IF cs = <<>> THEN acc
  ELSE FirstInserted(
         Tail(cs),
         AppendNew(acc,
                   entries(count_stems(hash_seed,
                                       [stemmer |-> PorterStemmer0,
                                        term_freqs |-> HashMap0,
                                        zipf |-> HashMap0,
                                        stats |-> BuildStats0],
                                       tokenize(Head(cs).text),
                                       NUL).term_freqs)))

\* C27: save_index gives the terms the term_ids 0..V-1 in the order in
\* which it writes them to vocabulary.txt; every term of the index is
\* written once, and the order is that of the slots of the hash table (the
\* iterator's order), which the hash of the terms decides and not the order
\* of their insertion
C27_TermIdsInSlotOrder ==
  disk # Disk0 =>
    /\ DenseTermIds
    /\ Range(VocabTerms) = Keys(builder.inverted_index_)
    /\ Len(VocabTerms) = Cardinality(Keys(builder.inverted_index_))
    /\ \A n \in 1..(Len(VocabTerms) - 1) :
         SlotOf(VocabTerms[n]) < SlotOf(VocabTerms[n + 1])

\* C27 as stated: the term_ids are 0..V-1 and the terms of vocabulary.txt
\* are in the order of their first insertion by add_document
C27_InsertionOrder ==
  disk # Disk0 =>
    /\ DenseTermIds
    /\ VocabTerms = FirstInserted(calls, <<>>)

\* an index saved with dog before cat, cat having been inserted first
C27_Witness ==
  /\ disk # Disk0
  /\ VocabTerms = <<DOG, CAT>>
  /\ FirstInserted(calls, <<>>) = <<CAT, DOG>>

\* list a is the beginning of list b
IsPrefix(a, b) == Len(a) <= Len(b) /\ SubSeq(b, 1, Len(a)) = a

\* what a step keeps of the build's data: the postings recorded so far stay
\* at the head of their lists, the arrays do not shrink, and the url, title
\* and length of the documents added so far stay as they are
AppendOnly ==
  /\ \A en \in Range(entries(builder.inverted_index_)) :
       IsPrefix(en.value,
                find(hash_seed, builder'.inverted_index_, en.key, <<>>).value)
  /\ Len(builder'.doc_urls_) >= Len(builder.doc_urls_)
  /\ Len(builder'.doc_titles_) >= Len(builder.doc_titles_)
  /\ Len(builder'.doc_lengths_) >= Len(builder.doc_lengths_)
  /\ \A d \in Written :
       /\ builder'.doc_urls_[d + 1] = builder.doc_urls_[d + 1]
       /\ builder'.doc_titles_[d + 1] = builder.doc_titles_[d + 1]
       /\ builder'.doc_lengths_[d + 1] = builder.doc_lengths_[d + 1]

\* C28: during a build the data is append-only: whatever the doc_ids of
\* the add_document calls, repeated or not, a call removes or changes no
\* posting of an earlier call and changes neither the url, the title nor
\* the length an earlier call has recorded for a document
C28_AppendOnly == [][AppendOnly]_vars

\* a word the tokenizer can emit: lower-case letters and apostrophes after
\* the first letter, two characters or more, no stop word
Emittable(word) ==
  /\ Len(word) >= 2
  /\ word[1] \in Lower
  /\ \A i \in 1..Len(word) : word[i] \in Lower \cup {"'"}
  /\ word \notin stop_words_

\* C29: for a token the tokenizer can emit, stem reads and writes word_
\* only at positions inside it (k_ >= 1 when step4 reads word_[k_ - 1]),
\* and the stem it returns is not empty; stated for the first call on a
\* stemmer
C29_StemInBounds ==
  (fn.op = "stem" /\ fn.n = 1 /\ Emittable(fn.word))
    => ~fn.stemmer.oob /\ fn.out # <<>>

\* the add_document calls so far have pairwise distinct doc_ids
DistinctDocIds ==
  \A i, j \in 1..Len(calls) : calls[i].doc_id = calls[j].doc_id => i = j

\* the sum of tf over the postings of posting_list whose doc_id is d
RECURSIVE ListTf(_, _)
ListTf(posting_list, d) ==
  IF posting_list = <<>> THEN 0
  ELSE (IF Head(posting_list).doc_id = d THEN Head(posting_list).tf ELSE 0)
         + ListTf(Tail(posting_list), d)

\* the sum of tf over all postings of the entries ents whose doc_id is d
RECURSIVE SumTf(_, _)
SumTf(ents, d) ==
  IF ents = <<>> THEN 0
  ELSE ListTf(Head(ents).value, d) + SumTf(Tail(ents), d)

\* C30: after add_document calls with pairwise distinct doc_ids, for every
\* added document d the sum of tf over the postings of d is length[d], the
\* number of tokens the tokenizer gave for d's text; and the arrays url[],
\* title[] and length[] have the same size at all times
C30_TfSumsToLength ==
  /\ Len(builder.doc_urls_) = Len(builder.doc_titles_)
  /\ Len(builder.doc_titles_) = Len(builder.doc_lengths_)
  /\ DistinctDocIds =>
       \A c \in Range(calls) :
         /\ builder.doc_lengths_[c.doc_id + 1] = Len(RunTokens(c.text))
         /\ SumTf(entries(builder.inverted_index_), c.doc_id)
              = builder.doc_lengths_[c.doc_id + 1]

\* documents 1 and 0 added in that order, the first with two tokens of one
\* stem, the second with two stems
C30_Witness ==
  /\ Len(calls) = 2
  /\ calls[1].doc_id = 1 /\ calls[1].text = <<"c", "a", "t", "s", " ", "c", "a", "t">>
  /\ calls[2].doc_id = 0 /\ calls[2].text = <<"c", "a", "t", " ", "d", "o", "g">>
  /\ builder.doc_lengths_ = <<2, 2>>
  /\ SumTf(entries(builder.inverted_index_), 1) = 2

=============================================================================
